---- MODULE Spec2Model ----
(***************************************************************************)
(* CodeCompass plan generation: PlanService.generatePlan sequences         *)
(* gatherContext, buildPrompt, AIService.generatePlan and                  *)
(* parsePlanResponse.  Values that cross the provider boundary are JSON    *)
(* values, modelled as tagged records so that the JavaScript tests the     *)
(* code applies to them (truthiness, typeof, in, .length, String) can be   *)
(* computed as the runtime computes them.                                  *)
(***************************************************************************)
EXTENDS Integers, Sequences, FiniteSets, TLC

VARIABLES pc, task, callOptions, environment, ctxOut, prompt, config, client, request, requests,
          providerOutcome, aiOut, normOut, result

\* one PlanService.generatePlan call followed on its own
planVars == <<pc, task, callOptions, environment, ctxOut, prompt, config, client, request, requests,
              providerOutcome, aiOut, normOut, result>>

\* the codecompass.apiKey setting, the two environment variables and the
\* value the apiKey getter returned
VARIABLES setting, envAnthropic, envOpenAI, keyRead

keyVars == <<setting, envAnthropic, envOpenAI, keyRead>>

\* calls of PlanService.generatePlan that run side by side, and the
\* completion requests they issued, in the order of issue
VARIABLES calls, sent

callVars == <<calls, sent>>

\* the extension host: the messages it has still to handle, where each
\* handleGeneratePlan activation stands, _currentPlan, _recentPlans, the
\* value under the recent-plans key of globalState, the handleDeletePlan
\* activations awaiting their save, and everything it posted to the webview
VARIABLES toHost, hostGen, currentPlan, recentPlans, stored, deleting, posted

\* the webview: how many posted messages it has handled, its state object,
\* the last toast it showed and the clicks made so far
VARIABLES seen, wv, toast, clicks

hostVars == <<toHost, hostGen, currentPlan, recentPlans, stored, deleting, posted>>
wvVars == <<seen, wv, toast, clicks>>

\* the codecompass.* settings of the workspace, the WorkspaceConfiguration
\* object ConfigService holds, and whether the start-up timer of activate
\* has still to fire
VARIABLES workspaceSettings, loaded, timerPending

settingsVars == <<workspaceSettings, loaded, timerPending>>

\* the object a caller got from getConfig: its fields, and whether it is the
\* very object AIService.config refers to
VARIABLES got

copyVars == <<got>>

\* everything outside the single call
outerVars == <<keyVars, callVars, hostVars, wvVars, settingsVars, copyVars>>

vars == <<planVars, outerVars>>

(***************************************************************************)
(* Bounds of the model.                                                    *)
(***************************************************************************)
\* longest raw.steps array enumerated
MaxSteps == 2
\* values Math.random() can return, as the base-36 suffix they print to
RandomValues == {0, 1}

Tasks == {"Add login", "Fix bug"}

(***************************************************************************)
(* JavaScript values.                                                      *)
(***************************************************************************)
Undefined == [kind |-> "undefined"]
JNull == [kind |-> "null"]
JBool(b) == [kind |-> "boolean", val |-> b]
JNum(n) == [kind |-> "number", val |-> n]
JStr(s) == [kind |-> "string", val |-> s]
JArr(s) == [kind |-> "array", val |-> s]
JObj(f) == [kind |-> "object", val |-> f]
NoFields == <<>>

\* completion of a call: a returned value or a thrown one
Return(v) == [kind |-> "return", value |-> v]
Throw(e) == [kind |-> "throw", error |-> e]
None == [kind |-> "none"]

\* ToBoolean: the test `x && ...` / `!x`
Truthy(v) ==
  CASE v.kind = "undefined" -> FALSE
    [] v.kind = "null" -> FALSE
    [] v.kind = "boolean" -> v.val
    [] v.kind = "number" -> v.val # 0
    [] v.kind = "string" -> v.val # ""
    [] OTHER -> TRUE

\* typeof v === 'object' (true of null and of arrays as well)
TypeofObject(v) == v.kind \in {"null", "array", "object"}

\* Array.isArray(v)
IsArray(v) == v.kind = "array"

\* 'k' in v, for v with typeof 'object' and not null, k a non-index key
HasKey(v, k) == v.kind = "object" /\ k \in DOMAIN v.val

\* v[k] for a key the object has
Get(v, k) == v.val[k]

\* the number of iterations `for (i = 0; i < v.length; i++)` makes: the length
\* of an array or a string, the numeric length property of an object, and none
\* when v.length is undefined (booleans, numbers, objects without length)
LoopBound(v) ==
  CASE v.kind = "array" -> Len(v.val)
    [] v.kind = "string" -> Len(v.val)
    [] v.kind = "object" /\ "length" \in DOMAIN v.val /\ v.val["length"].kind = "number"
         -> v.val["length"].val
    [] OTHER -> 0

\* v[i] for a zero-based index i
Index(v, i) ==
  CASE v.kind = "array" -> IF i < Len(v.val) THEN v.val[i + 1] ELSE Undefined
    [] v.kind = "string" -> IF i < Len(v.val) THEN JStr(SubSeq(v.val, i + 1, i + 1)) ELSE Undefined
    [] v.kind = "object" -> IF ToString(i) \in DOMAIN v.val THEN v.val[ToString(i)] ELSE Undefined
    [] OTHER -> Undefined

RECURSIVE JoinStrings(_, _)
\* Array.prototype.join over already stringified elements
JoinStrings(strs, sep) ==
  IF strs = <<>> THEN ""
  ELSE IF Len(strs) = 1 THEN strs[1]
  ELSE strs[1] \o sep \o JoinStrings(Tail(strs), sep)

RECURSIVE String(_)
\* String(v)
String(v) ==
  CASE v.kind = "undefined" -> "undefined"
    [] v.kind = "null" -> "null"
    [] v.kind = "boolean" -> IF v.val THEN "true" ELSE "false"
    [] v.kind = "number" -> ToString(v.val)
    [] v.kind = "string" -> v.val
    [] v.kind = "array" ->
         JoinStrings([k \in 1..Len(v.val) |->
                        IF v.val[k].kind \in {"null", "undefined"} THEN "" ELSE String(v.val[k])], ",")
    [] OTHER -> "[object Object]"

\* s.includes(sub)
Includes(s, sub) ==
  \E k \in 1..(Len(s) - Len(sub) + 1) : SubSeq(s, k, k + Len(sub) - 1) = sub

(***************************************************************************)
(* PlanService.generateId: Date.now().toString(36) followed by the digits  *)
(* of Math.random().toString(36).  The time prefix has a fixed width, so   *)
(* the string determines both parts and is modelled as the pair.           *)
(***************************************************************************)
generateId(time, random) == [time |-> time, rand |-> random]

(***************************************************************************)
(* The clock and the random source as one synchronous block reads them:    *)
(* reads[k] is the k-th Date.now() / new Date() of the block, rands[k] the *)
(* k-th Math.random().  The clock never runs backwards; the block's first  *)
(* reading is taken as the origin.                                         *)
(***************************************************************************)
RECURSIVE Elapsed(_, _)
\* the clock after k readings, ticks[j] being the milliseconds (none or one:
\* only whether two readings agree matters) between reading j and reading j + 1
Elapsed(ticks, k) == IF k <= 1 THEN 0 ELSE Elapsed(ticks, k - 1) + ticks[k - 1]

Entropy(nReads, nRands) ==
  {[reads |-> [k \in 1..nReads |-> Elapsed(ticks, k)], rands |-> r] :
     ticks \in [1..(nReads - 1) -> {0, 1}], r \in [1..nRands -> RandomValues]}

\* readings long enough for any block, used to count what a block draws
ZeroEntropy == [reads |-> [k \in 1..(MaxSteps + 4) |-> 0], rands |-> [k \in 1..(MaxSteps + 2) |-> 0]]

(***************************************************************************)
(* PlanService.parsePlanResponse.                                          *)
(***************************************************************************)
\* planStep taking the order from the source object when it carries one
planStepSourceOrder(step, i, id) ==
  [id |-> id,
   description |-> IF HasKey(step, "description")
                   THEN String(Get(step, "description"))
                   ELSE "Step " \o ToString(i + 1),
   files |-> IF HasKey(step, "files") /\ IsArray(Get(step, "files"))
             THEN Get(step, "files").val
             ELSE <<>>,
   order |-> IF HasKey(step, "order") /\ Get(step, "order").kind = "number"
             THEN Get(step, "order").val
             ELSE i]

\* planStep numbering the order from one
planStepOneBasedOrder(step, i, id) ==
  [id |-> id,
   description |-> IF HasKey(step, "description")
                   THEN String(Get(step, "description"))
                   ELSE "Step " \o ToString(i + 1),
   files |-> IF HasKey(step, "files") /\ IsArray(Get(step, "files"))
             THEN Get(step, "files").val
             ELSE <<>>,
   order |-> i + 1]

\* planStep labelling a step without description by its zero-based index
planStepZeroBasedLabel(step, i, id) ==
  [id |-> id,
   description |-> IF HasKey(step, "description")
                   THEN String(Get(step, "description"))
                   ELSE "Step " \o ToString(i),
   files |-> IF HasKey(step, "files") /\ IsArray(Get(step, "files"))
             THEN Get(step, "files").val
             ELSE <<>>,
   order |-> i]

\* the object pushed for source element `step` at loop index i
planStep(step, i, id) ==
  [id |-> id,
   description |-> IF HasKey(step, "description")
                   THEN String(Get(step, "description"))
                   ELSE "Step " \o ToString(i + 1),
   files |-> IF HasKey(step, "files") /\ IsArray(Get(step, "files"))
             THEN Get(step, "files").val
             ELSE <<>>,
   order |-> i]

RECURSIVE collectStepsStopAtNonObject(_, _, _, _)
\* the loop leaving at the first element that is not an object
collectStepsStopAtNonObject(data, i, steps, e) ==
  IF ~(i < LoopBound(data)) THEN steps
  ELSE LET step == Index(data, i)
           n == Len(steps) + 1
       IN IF Truthy(step) /\ TypeofObject(step)
          THEN collectStepsStopAtNonObject(data, i + 1,
                 Append(steps, planStep(step, i, generateId(e.reads[2 + n], e.rands[1 + n]))), e)
          ELSE steps

RECURSIVE collectSteps(_, _, _, _)
\* the for loop over data.steps from index i on, `steps` being what was pushed
\* before; every push draws one identifier
collectSteps(data, i, steps, e) ==
  IF ~(i < LoopBound(data)) THEN steps
  ELSE LET step == Index(data, i)
           n == Len(steps) + 1
       IN IF Truthy(step) /\ TypeofObject(step)
          THEN collectSteps(data, i + 1,
                            Append(steps, planStep(step, i, generateId(e.reads[2 + n], e.rands[1 + n]))),
                            e)
          ELSE collectSteps(data, i + 1, steps, e)

\* the status set without looking at the steps
statusOfAlwaysActive(steps) == "active"

\* status after the loop
statusOf(steps) == IF Len(steps) > 0 THEN "active" ELSE "draft"

\* parsePlanResponse(task, response): Return(plan), or Throw of the TypeError
\* that reading .length of null raises
parsePlanResponse(t, response, e) ==
  LET plan == [id |-> generateId(e.reads[1], e.rands[1]),
               task |-> t,
               steps |-> <<>>,
               createdAt |-> e.reads[2],
               status |-> "draft"]
  IN IF Truthy(response) /\ TypeofObject(response) /\ HasKey(response, "steps")
     THEN LET data == Get(response, "steps")
          IN IF data.kind \in {"null", "undefined"}
             THEN Throw([class |-> "TypeError",
                         message |-> "Cannot read properties of null (reading 'length')",
                         status |-> Undefined, code |-> Undefined])
             ELSE LET steps == collectSteps(data, 0, <<>>, e)
                  IN Return([plan EXCEPT !.steps = steps, !.status = statusOf(steps)])
     ELSE Return(plan)

(***************************************************************************)
(* AIService.                                                              *)
(***************************************************************************)
\* the class of a thrown value; a plain object literal has none
ClassOf(error) == IF "class" \in DOMAIN error THEN error.class ELSE "Object"

\* error instanceof OpenAI.APIError
IsAPIError(error) == ClassOf(error) = "APIError"

\* error instanceof Error
IsError(error) == ClassOf(error) \in {"APIError", "TypeError", "Error", "SyntaxError"}

\* AIService.createError
createError(message) == [message |-> message, type |-> "unknown"]

\* handleError without the 429 branch
handleErrorNo429(error) ==
  IF IsAPIError(error)
  THEN CASE error.status = JNum(401) ->
              [message |-> "Invalid API key. Please check your CodeCompass API key in settings.",
               code |-> JStr("AUTH_ERROR"), type |-> "authentication", original |-> error]
         [] error.status = JNum(400) ->
              [message |-> "Invalid request. Please check your configuration.",
               code |-> JStr("BAD_REQUEST"), type |-> "bad_request", original |-> error]
         [] OTHER ->
              [message |-> "API error (" \o String(error.status) \o "): " \o error.message,
               code |-> IF error.code.kind = "null" THEN Undefined ELSE error.code,
               type |-> "unknown", original |-> error]
  ELSE IF ClassOf(error) = "TypeError" /\ Includes(error.message, "fetch")
  THEN [message |-> "Network error: Unable to reach the AI service. Check your connection and endpoint.",
        code |-> JStr("NETWORK_ERROR"), type |-> "network", original |-> error]
  ELSE [message |-> "Unexpected error: " \o (IF IsError(error) THEN error.message ELSE "[object Object]"),
        type |-> "unknown", original |-> error]

\* AIService.handleError
handleError(error) ==
  IF IsAPIError(error)
  THEN CASE error.status = JNum(401) ->
              [message |-> "Invalid API key. Please check your CodeCompass API key in settings.",
               code |-> JStr("AUTH_ERROR"), type |-> "authentication", original |-> error]
         [] error.status = JNum(429) ->
              [message |-> "Rate limit exceeded. Please wait a moment and try again.",
               code |-> JStr("RATE_LIMIT"), type |-> "rate_limit", original |-> error]
         [] error.status = JNum(400) ->
              [message |-> "Invalid request. Please check your configuration.",
               code |-> JStr("BAD_REQUEST"), type |-> "bad_request", original |-> error]
         [] OTHER ->
              [message |-> "API error (" \o String(error.status) \o "): " \o error.message,
               code |-> IF error.code.kind = "null" THEN Undefined ELSE error.code,
               type |-> "unknown", original |-> error]
  ELSE IF ClassOf(error) = "TypeError" /\ Includes(error.message, "fetch")
  THEN [message |-> "Network error: Unable to reach the AI service. Check your connection and endpoint.",
        code |-> JStr("NETWORK_ERROR"), type |-> "network", original |-> error]
  ELSE [message |-> "Unexpected error: " \o (IF IsError(error) THEN error.message ELSE "[object Object]"),
        type |-> "unknown", original |-> error]

(***************************************************************************)
(* The provider's replies.  A reply text is either the JSON text of a      *)
(* value of RawValues or a text that is no JSON; JSON.parse is the inverse *)
(* of JSON serialisation on the former and raises on the latter.           *)
(***************************************************************************)
\* elements raw.steps can hold: non-objects, an array, and objects with and
\* without description, files and order fields of several types
StepElements ==
  {JNull, JNum(7), JStr("s"), JBool(TRUE), JArr(<<>>),
   JObj(NoFields),
   JObj([description |-> JStr("Add tests")]),
   JObj([description |-> JNum(42), files |-> JStr("a.ts")]),
   JObj([files |-> JArr(<<JStr("a.ts"), JStr("b.ts")>>), order |-> JNum(5)])}

StepArrays == UNION {[1..n -> StepElements] : n \in 0..MaxSteps}

\* values of the steps property: every JSON type
StepsValues ==
  {JNull, JNum(3), JBool(TRUE), JStr("ab"), JObj(NoFields), JObj([length |-> JNum(2)])}
    \cup {JArr(a) : a \in StepArrays}

\* values a reply can parse to: every JSON type, objects with and without steps
RawValues ==
  {JNull, JNum(5), JBool(FALSE), JStr("plan"), JArr(<<>>), JArr(<<JObj(NoFields)>>),
   JObj(NoFields), JObj([title |-> JStr("Plan")])}
    \cup {JObj([steps |-> v]) : v \in StepsValues}

RECURSIVE Stringify(_), StringifyFields(_, _)
\* JSON.stringify(v)
Stringify(v) ==
  CASE v.kind = "null" -> "null"
    [] v.kind = "boolean" -> IF v.val THEN "true" ELSE "false"
    [] v.kind = "number" -> ToString(v.val)
    [] v.kind = "string" -> "\"" \o v.val \o "\""
    [] v.kind = "array" ->
         "[" \o JoinStrings([k \in 1..Len(v.val) |-> Stringify(v.val[k])], ",") \o "]"
    [] OTHER -> "{" \o StringifyFields(v.val, DOMAIN v.val) \o "}"

\* the members of object f for the keys `keys`
StringifyFields(f, keys) ==
  IF keys = {} THEN ""
  ELSE LET k == CHOOSE x \in keys : TRUE
           rest == keys \ {k}
       IN "\"" \o k \o "\":" \o Stringify(f[k])
            \o (IF rest = {} THEN "" ELSE "," \o StringifyFields(f, rest))

\* the JSON texts, each with the value it denotes
JsonReplies == {<<Stringify(v), v>> : v \in RawValues}

\* texts that are not JSON
NonJsonTexts == {"Here is your plan: 1. Add tests", "{steps: [}"}

\* JSON.parse(text)
JSONparse(text) ==
  IF \E r \in JsonReplies : r[1] = text
  THEN Return((CHOOSE r \in JsonReplies : r[1] = text)[2])
  ELSE Throw([class |-> "SyntaxError", message |-> "Unexpected token in JSON",
              status |-> Undefined, code |-> Undefined])

\* an error of the OpenAI client: APIError carries the HTTP status, which a
\* connection failure (APIConnectionError, a subclass) leaves undefined
APIError(status, code) ==
  [class |-> "APIError", message |-> "provider message", status |-> status, code |-> code]

\* what client.chat.completions.create can throw
ProviderErrors ==
  {APIError(JNum(401), JStr("invalid_api_key")),
   APIError(JNum(429), JStr("rate_limit_exceeded")),
   APIError(JNum(400), JNull),
   APIError(JNum(403), Undefined),
   APIError(JNum(500), JStr("server_error")),
   APIError(Undefined, Undefined),
   [class |-> "TypeError", message |-> "fetch failed", status |-> Undefined, code |-> Undefined],
   [class |-> "TypeError", message |-> "x is not a function", status |-> Undefined, code |-> Undefined],
   [class |-> "Error", message |-> "socket hang up", status |-> Undefined, code |-> Undefined]}

\* response.choices[0]?.message?.content of a response
Contents ==
  {Undefined, JNull, JStr("")}
    \cup {JStr(r[1]) : r \in JsonReplies} \cup {JStr(txt) : txt \in NonJsonTexts}

\* the errors among them that are transport failures, not HTTP responses: the
\* client's connection error (an APIError without status), a failed fetch, a
\* dropped socket
TransportFailures ==
  {APIError(Undefined, Undefined),
   [class |-> "TypeError", message |-> "fetch failed", status |-> Undefined, code |-> Undefined],
   [class |-> "Error", message |-> "socket hang up", status |-> Undefined, code |-> Undefined]}

\* the outcomes of awaiting client.chat.completions.create
ProviderOutcomes ==
  {[kind |-> "response", content |-> c] : c \in Contents}
    \cup {[kind |-> "throw", error |-> err] : err \in ProviderErrors}

\* the try body raising when the reply is no JSON
aiTryBodyParseFailureThrows(outcome) ==
  IF outcome.kind = "throw" THEN Throw(outcome.error)
  ELSE LET content == outcome.content
       IN IF ~Truthy(content)
          THEN Throw(createError("No response content received from AI service"))
          ELSE LET parsed == JSONparse(content.val)
               IN IF parsed.kind = "return" THEN Return(parsed.value)
                  ELSE parsed

\* AIService.generatePlan from the provider's outcome on: the inner try body
aiTryBody(outcome) ==
  IF outcome.kind = "throw" THEN Throw(outcome.error)
  ELSE LET content == outcome.content
       IN IF ~Truthy(content)
          THEN Throw(createError("No response content received from AI service"))
          ELSE LET parsed == JSONparse(content.val)
               IN IF parsed.kind = "return" THEN Return(parsed.value)
                  ELSE Return(JObj([raw |-> content]))

\* the catch block issuing the request once more after a 429
afterOutcomeRetry429(outcome, n) ==
  IF outcome.kind = "throw" /\ IsAPIError(outcome.error)
       /\ outcome.error.status = JNum(429) /\ n < 2
  THEN [pc |-> "requesting", requests |-> n + 1]
  ELSE [pc |-> "responded", requests |-> n]

\* where the call stands once the provider's outcome has arrived, after n
\* requests: the try block holds no loop and the catch block rethrows, so the
\* call completes and no further request is issued
afterOutcome(outcome, n) == [pc |-> "responded", requests |-> n]

\* AIService.generatePlan: whatever the try body throws is rethrown classified
aiGeneratePlan(outcome) ==
  LET body == aiTryBody(outcome)
  IN IF body.kind = "throw" THEN Throw(handleError(body.error)) ELSE body

(***************************************************************************)
(* PlanService.generatePlan.                                               *)
(***************************************************************************)
\* the catch block returning the plan as a draft
failedPlanAsDraft(t, e, reads, rands) ==
  [id |-> generateId(e.reads[reads + 1], e.rands[rands + 1]),
   task |-> t,
   steps |-> <<>>,
   createdAt |-> e.reads[reads + 2],
   status |-> "draft"]

\* the plan the catch block returns, after `reads` clock readings and `rands`
\* random draws were made in the try block
failedPlan(t, e, reads, rands) ==
  [id |-> generateId(e.reads[reads + 1], e.rands[rands + 1]),
   task |-> t,
   steps |-> <<>>,
   createdAt |-> e.reads[reads + 2],
   status |-> "failed"]

\* the call of parsePlanResponse in the try block, made when the completion
\* call returned
normalized(t, out, e) ==
  IF out.kind = "return" THEN parsePlanResponse(t, out.value, e) ELSE None

\* generatePlan without its catch block
planGeneratePlanUncaught(t, out, e) ==
  IF out.kind = "throw" THEN out ELSE parsePlanResponse(t, out.value, e)

\* generatePlan from the completion call's outcome on.  A throw of the
\* completion call reaches the catch with no reading made; a throw of
\* parsePlanResponse reaches it after the plan id and createdAt were read.
planGeneratePlan(t, out, e) ==
  IF out.kind = "throw" THEN Return(failedPlan(t, e, 0, 0))
  ELSE LET parsed == parsePlanResponse(t, out.value, e)
       IN IF parsed.kind = "throw" THEN Return(failedPlan(t, e, 2, 1)) ELSE parsed

\* the number of generateId calls the block from the completion call's outcome
\* to the return makes: one for the normalized plan and one per step pushed,
\* and one for the plan of the catch block when that is reached
idsDrawn(out) ==
  LET tried == normalized("", out, ZeroEntropy)
  IN CASE tried.kind = "return" -> 1 + Len(tried.value.steps)
       [] tried.kind = "throw" -> 2
       [] OTHER -> 1

\* the number of clock readings of that block: one per generateId call and one
\* per createdAt
readsDrawn(out) ==
  LET tried == normalized("", out, ZeroEntropy)
  IN idsDrawn(out) + 1 + (IF tried.kind = "throw" THEN 1 ELSE 0)

(***************************************************************************)
(* AIService configuration: the constructor, updateConfig and the request  *)
(* a generatePlan call sends.                                              *)
(***************************************************************************)
ConfigFields == {"apiKey", "endpoint", "model", "maxTokens"}

\* the configurations the service is constructed with
Configs ==
  [apiKey : {"", "sk-ant-1", "sk-ant-2"},
   endpoint : {"", "https://proxy.local/v1"},
   model : {"claude-3-5-sonnet-20241022", "gpt-4o"},
   maxTokens : {4096, 1024}]

DefaultConfig ==
  [apiKey |-> "sk-ant-1", endpoint |-> "", model |-> "claude-3-5-sonnet-20241022",
   maxTokens |-> 4096]

\* the arguments of updateConfig: any subset of the fields, each with a value
Partials ==
  UNION {{[k \in keys |-> c[k]] : c \in Configs} : keys \in SUBSET ConfigFields}

\* new OpenAI({apiKey, baseURL: endpoint || undefined})
newClient(cfg) ==
  [apiKey |-> cfg.apiKey,
   baseURL |-> IF cfg.endpoint # "" THEN JStr(cfg.endpoint) ELSE Undefined]

\* updateConfig merging the fields and keeping the client it had
updateConfigKeepsClient(cfg, cl, partial) ==
  [config |-> [k \in ConfigFields |-> IF k \in DOMAIN partial THEN partial[k] ELSE cfg[k]],
   client |-> cl]

\* AIService.updateConfig: the stored configuration and the client after it
updateConfig(cfg, cl, partial) ==
  LET merged == [k \in ConfigFields |-> IF k \in DOMAIN partial THEN partial[k] ELSE cfg[k]]
  IN [config |-> merged, client |-> newClient(merged)]

\* what client.chat.completions.create sends: the client's credential and
\* base URL, the stored model and token ceiling
createRequest(cfg, cl) ==
  [apiKey |-> cl.apiKey, baseURL |-> cl.baseURL,
   model |-> cfg.model, max_tokens |-> cfg.maxTokens]

(***************************************************************************)
(* PlanService.gatherContext: the editor, the workspace folder and the     *)
(* package.json it reads.                                                  *)
(***************************************************************************)
\* an object whose keys keep their insertion order (Object.keys order)
JOrd(keys, f) == [kind |-> "object", val |-> f, keys |-> keys]
EmptyObject == JOrd(<<>>, NoFields)

\* JSON.stringify of a value whose objects keep their key order
RECURSIVE StringifyOrdered(_)
StringifyOrdered(v) ==
  IF v.kind = "object" /\ "keys" \in DOMAIN v
  THEN "{" \o JoinStrings([i \in 1..Len(v.keys) |->
                "\"" \o v.keys[i] \o "\":" \o StringifyOrdered(v.val[v.keys[i]])], ",") \o "}"
  ELSE Stringify(v)

\* the package names the detection rules look for, and one they do not
RuleNames ==
  {"react", "vue", "angular", "@angular/core", "svelte", "next", "node",
   "express", "nest", "typescript", "storybook"}
PackageNames == RuleNames \cup {"lodash"}

\* one package at a semver range
OnePackage(name, version) == JOrd(<<name>>, name :> JStr(version))

\* dependency maps of a package.json: empty, one package, two packages, and
\* a package with the empty version string (npm reads "" as any version)
DevDependencyMaps ==
  {EmptyObject, OnePackage("react", "")}
    \cup {OnePackage(n, "^1.0.0") : n \in PackageNames}
\* package names in an order that is not the alphabetical one
PackageOrder ==
  <<"zod", "lodash", "express", "react", "axios", "vue", "next", "chalk",
    "svelte", "typescript", "yargs", "debug">>

\* the first n of them, each at a version of its own
ManyPackages(n) ==
  JOrd(SubSeq(PackageOrder, 1, n),
       [name \in {PackageOrder[i] : i \in 1..n} |-> JStr("^" \o name \o ".0.1")])

DependencyMaps ==
  DevDependencyMaps
    \cup {ManyPackages(n) : n \in {10, 11, 12}}
    \cup {JOrd(<<"vue", "react">>, "vue" :> JStr("^3.4.0") @@ "react" :> JStr("^18.2.0")),
          JOrd(<<"lodash", "express">>,
               "lodash" :> JStr("^4.17.21") @@ "express" :> JStr("^4.18.2"))}

\* the values a package.json can hold
ManifestValues ==
  {JNull, JNum(5), JStr("x"), JBool(TRUE), JArr(<<>>), EmptyObject}
    \cup {JOrd(<<"dependencies">>, "dependencies" :> d) : d \in DependencyMaps \cup {JNull}}
    \cup {JOrd(<<"devDependencies">>, "devDependencies" :> dd) : dd \in DevDependencyMaps}
    \cup {JOrd(<<"dependencies", "devDependencies">>,
               "dependencies" :> d @@ "devDependencies" :> dd) :
            d \in DependencyMaps \cup {JNull}, dd \in DevDependencyMaps}
ManifestReplies == {<<StringifyOrdered(v), v>> : v \in ManifestValues}
BrokenManifestTexts == {"{ \"dependencies\": { "}

\* JSON.parse(pkgContent)
parsePkgContent(text) ==
  IF \E r \in ManifestReplies : r[1] = text
  THEN Return((CHOOSE r \in ManifestReplies : r[1] = text)[2])
  ELSE Throw([class |-> "SyntaxError", message |-> "Unexpected end of JSON input"])

\* the outcomes of readFile(pkgJsonPath, 'utf-8')
ReadFileOutcomes ==
  {Throw([class |-> "Error", message |-> "ENOENT: no such file or directory"])}
    \cup {Return(r[1]) : r \in ManifestReplies}
    \cup {Return(txt) : txt \in BrokenManifestTexts}

\* the outcomes of vscode.workspace.fs.readDirectory
ReadDirectoryOutcomes ==
  {Return(<<>>),
   Return(<< <<"src", "Directory">>, <<"README.md", "File">>, <<"test", "Directory">> >>),
   Throw([class |-> "Error", message |-> "EACCES: permission denied"])}

\* vscode.window.activeTextEditor
Editors ==
  {Undefined,
   [kind |-> "editor",
    document |-> [path |-> "/work/app/src/a.ts", content |-> "export {}",
                  language |-> "typescript"]]}

\* what one gatherContext call finds around it
Environments ==
  [root : {Undefined, JStr("/work/app")},
   editor : Editors,
   readDirectory : ReadDirectoryOutcomes,
   readFile : ReadFileOutcomes]

\* a call outside any workspace, with no editor open
BareEnvironment ==
  [root |-> Undefined, editor |-> Undefined, readDirectory |-> Return(<<>>),
   readFile |-> Throw([class |-> "Error", message |-> "ENOENT: no such file or directory"])]

OptionFlags == {"includeActiveFile", "includeWorkspaceStructure", "includeDependencies"}

\* the options argument: omitted, any subset of the flags set to true, or
\* all of them set to false
OptionsValues ==
  {Undefined, JObj([k \in OptionFlags |-> JBool(FALSE)])}
    \cup {JObj([k \in keys |-> JBool(TRUE)]) : keys \in SUBSET OptionFlags}

\* what generatePlan of the plan view passes
AllOptions == JObj([k \in OptionFlags |-> JBool(TRUE)])

\* a flag test that counts a missing flag as set
flagDefaultSet(options, name) ==
  ~(options.kind = "object" /\ HasKey(options, name)) \/ Truthy(Get(options, name))

\* the test `options?.includeX`
flag(options, name) ==
  options.kind = "object" /\ HasKey(options, name) /\ Truthy(Get(options, name))

\* v.k for a value v that is neither null nor undefined
Prop(v, k) == IF HasKey(v, k) THEN Get(v, k) ELSE Undefined

\* `x || {}`
OrEmpty(v) == IF Truthy(v) THEN v ELSE EmptyObject

\* allDeps[name] for allDeps = {...dependencies, ...devDependencies}: the
\* later spread wins; spreading a value that is not an object adds no
\* package name
allDeps(pkgJson, name) ==
  LET deps == Prop(pkgJson, "dependencies")
      devDeps == Prop(pkgJson, "devDependencies")
  IN IF HasKey(devDeps, name) THEN Get(devDeps, name)
     ELSE IF HasKey(deps, name) THEN Get(deps, name)
     ELSE Undefined

\* the rules of detectTechStack in their order
Rules ==
  << [names |-> {"react"}, label |-> "React"],
     [names |-> {"vue"}, label |-> "Vue.js"],
     [names |-> {"angular", "@angular/core"}, label |-> "Angular"],
     [names |-> {"svelte"}, label |-> "Svelte"],
     [names |-> {"next"}, label |-> "Next.js"],
     [names |-> {"node"}, label |-> "Node.js"],
     [names |-> {"express"}, label |-> "Express.js"],
     [names |-> {"nest"}, label |-> "NestJS"],
     [names |-> {"typescript"}, label |-> "TypeScript"],
     [names |-> {"storybook"}, label |-> "Storybook"] >>

\* PlanService.detectTechStack
detectTechStack(pkgJson) ==
  LET Fires(i) == \E n \in Rules[i].names : Truthy(allDeps(pkgJson, n))
  IN IF \E i \in DOMAIN Rules : Fires(i)
     THEN Rules[CHOOSE i \in DOMAIN Rules : Fires(i) /\ \A j \in 1..(i - 1) : ~Fires(j)].label
     ELSE "JavaScript/TypeScript"

IsDirectory(entry) == entry[2] = "Directory"

\* PlanService.getWorkspaceStructure
getWorkspaceStructure(env) ==
  IF ~Truthy(env.root) THEN <<>>
  ELSE IF env.readDirectory.kind = "throw" THEN <<>>
  ELSE LET folders == SelectSeq(env.readDirectory.value, IsDirectory)
       IN [i \in 1..Len(folders) |-> folders[i][1]]

\* a catch clause that leaves empty maps and the default label behind
manifestCatchEmptyMaps(thrown) ==
  "dependencies" :> [dependencies |-> EmptyObject, devDependencies |-> EmptyObject]
    @@ "techStack" :> "JavaScript/TypeScript"

\* a catch clause that leaves the dependencies assigned without a label
manifestCatchDependenciesOnly(thrown) ==
  "dependencies" :> [dependencies |-> EmptyObject, devDependencies |-> EmptyObject]

\* the catch clause of the inner try: it assigns nothing
manifestCatch(thrown) == NoFields

\* the body of the inner try of gatherContext: the fields it assigns, or
\* what it throws
manifestFields(env) ==
  IF env.readFile.kind = "throw" THEN env.readFile
  ELSE LET parsed == parsePkgContent(env.readFile.value)
       IN IF parsed.kind = "throw" THEN parsed
          ELSE IF parsed.value.kind = "null"
          THEN Throw([class |-> "TypeError",
                      message |-> "Cannot read properties of null (reading 'dependencies')"])
          ELSE Return("dependencies" :>
                        [dependencies |-> OrEmpty(Prop(parsed.value, "dependencies")),
                         devDependencies |-> OrEmpty(Prop(parsed.value, "devDependencies"))]
                      @@ "techStack" :> detectTechStack(parsed.value))

\* the fields gathered before the manifest is read
fieldsBeforeManifest(options, env) ==
  ("workspaceRoot" :> env.root)
    @@ (IF flag(options, "includeActiveFile") /\ env.editor.kind # "undefined"
        THEN "activeFile" :> env.editor.document ELSE NoFields)
    @@ (IF flag(options, "includeWorkspaceStructure")
        THEN "workspaceStructure" :> getWorkspaceStructure(env) ELSE NoFields)

\* the manifest step of gatherContext, run when the flag is set and there
\* is a workspace root
manifestStep(options, env) ==
  IF flag(options, "includeDependencies") /\ Truthy(env.root)
  THEN manifestFields(env) ELSE Return(NoFields)

\* gatherContext without its catch clauses
gatherContextUncaught(options, env) ==
  LET m == manifestStep(options, env)
  IN IF m.kind = "throw" THEN m
     ELSE Return(fieldsBeforeManifest(options, env) @@ m.value)

\* PlanService.gatherContext
gatherContext(options, env) ==
  LET m == manifestStep(options, env)
  IN Return(fieldsBeforeManifest(options, env)
              @@ (IF m.kind = "return" THEN m.value ELSE manifestCatch(m.error)))

(***************************************************************************)
(* PlanService.buildPrompt.                                                *)
(***************************************************************************)
\* Object.keys of an object whose keys keep their order
ObjectKeys(v) == v.keys

\* arr.slice(0, n)
SliceFirst(arr, n) == SubSeq(arr, 1, IF Len(arr) < n THEN Len(arr) ELSE n)

\* `Task: ${task}\n\n`
taskSection(t) == "Task: " \o t \o "\n\n"

\* the three lines appended under `if (context.activeFile)`
activeFileSection(ctx) ==
  IF "activeFile" \in DOMAIN ctx
  THEN "Current active file: " \o ctx["activeFile"].path \o "\n"
         \o "Language: " \o ctx["activeFile"].language \o "\n\n"
         \o "--- File Content ---\n" \o ctx["activeFile"].content
         \o "\n--- End File ---\n\n"
  ELSE ""

\* a Tech Stack line printed whether or not the label is there
techStackSectionAlways(ctx) ==
  "Tech Stack: "
    \o (IF "techStack" \in DOMAIN ctx THEN ctx["techStack"] ELSE "undefined") \o "\n\n"

\* the line appended under `if (context.techStack)`
techStackSection(ctx) ==
  IF "techStack" \in DOMAIN ctx /\ ctx["techStack"] # ""
  THEN "Tech Stack: " \o ctx["techStack"] \o "\n\n"
  ELSE ""

\* a Dependencies line that marks a list of ten names as cut
dependenciesSectionCutAtTen(ctx) ==
  IF "dependencies" \in DOMAIN ctx /\ Truthy(ctx["dependencies"].dependencies)
  THEN LET deps == ObjectKeys(ctx["dependencies"].dependencies)
       IN "Dependencies: " \o JoinStrings(SliceFirst(deps, 10), ", ")
            \o (IF Len(deps) >= 10 THEN "..." ELSE "") \o "\n\n"
  ELSE ""

\* the line appended under `if (context.dependencies?.dependencies)`
dependenciesSection(ctx) ==
  IF "dependencies" \in DOMAIN ctx /\ Truthy(ctx["dependencies"].dependencies)
  THEN LET deps == ObjectKeys(ctx["dependencies"].dependencies)
       IN "Dependencies: " \o JoinStrings(SliceFirst(deps, 10), ", ")
            \o (IF Len(deps) > 10 THEN "..." ELSE "") \o "\n\n"
  ELSE ""

\* a prompt that lists the workspace folders as well
buildPromptWithStructure(t, ctx) ==
  taskSection(t) \o activeFileSection(ctx) \o techStackSection(ctx)
    \o dependenciesSection(ctx)
    \o (IF "workspaceStructure" \in DOMAIN ctx
        THEN "Folders: " \o JoinStrings(ctx["workspaceStructure"], ", ") \o "\n\n"
        ELSE "")

\* PlanService.buildPrompt
buildPrompt(t, ctx) ==
  taskSection(t) \o activeFileSection(ctx) \o techStackSection(ctx)
    \o dependenciesSection(ctx)

(***************************************************************************)
(* ConfigService.apiKey.                                                   *)
(***************************************************************************)
Whitespace == {" ", "\t", "\n"}

RECURSIVE TrimStart(_)
TrimStart(s) ==
  IF Len(s) > 0 /\ SubSeq(s, 1, 1) \in Whitespace
  THEN TrimStart(SubSeq(s, 2, Len(s))) ELSE s

RECURSIVE TrimEnd(_)
TrimEnd(s) ==
  IF Len(s) > 0 /\ SubSeq(s, Len(s), Len(s)) \in Whitespace
  THEN TrimEnd(SubSeq(s, 1, Len(s) - 1)) ELSE s

\* String.prototype.trim
Trim(s) == TrimEnd(TrimStart(s))

\* the values of the codecompass.apiKey setting ("" is its default)
Settings == {"", " ", " \t\n", "sk-set", "  sk-set\n", "sk set", " sk set "}

\* the values of process.env.ANTHROPIC_API_KEY
AnthropicValues == {Undefined, JStr(""), JStr("sk-ant-env"), JStr(" ")}

\* the values of process.env.OPENAI_API_KEY
OpenAIValues == {Undefined, JStr(""), JStr("sk-oai-env")}

\* a getter that asks the environment before the setting
apiKeyEnvironmentFirst(configKey, anthropic, openai) ==
  IF Truthy(anthropic) THEN anthropic.val
  ELSE IF Truthy(openai) THEN openai.val
  ELSE IF configKey # "" THEN Trim(configKey) ELSE ""

\* ConfigService.apiKey
apiKey(configKey, anthropic, openai) ==
  LET trimmedConfigKey == IF configKey # "" THEN Trim(configKey) ELSE ""
  IN IF trimmedConfigKey # "" THEN trimmedConfigKey
     ELSE IF Truthy(anthropic) THEN anthropic.val
     ELSE IF Truthy(openai) THEN openai.val
     ELSE ""

(***************************************************************************)
(* The state machine of one generatePlan call.                             *)
(***************************************************************************)
\* no setting and no environment variable
KeyInit ==
  /\ setting = ""
  /\ envAnthropic = Undefined
  /\ envOpenAI = Undefined
  /\ keyRead = None

(***************************************************************************)
(* Calls of PlanService.generatePlan side by side.  Each call keeps what   *)
(* its own activation holds: its position, the task parameter, the prompt, *)
(* the outcome of its await and its return value.                          *)
(***************************************************************************)
CallIds == {1, 2}

IdleCall ==
  [pc |-> "idle", task |-> "", prompt |-> "", outcome |-> None, aiOut |-> None,
   result |-> None]

\* the surroundings the calls gather their context in
CallEnvironments ==
  {BareEnvironment,
   [root |-> JStr("/work/app"),
    editor |-> [kind |-> "editor",
                document |-> [path |-> "/work/app/src/a.ts", content |-> "export {}",
                              language |-> "typescript"]],
    readDirectory |-> Return(<< <<"src", "Directory">> >>),
    readFile |-> Return(StringifyOrdered(
                   JOrd(<<"dependencies">>, "dependencies" :> OnePackage("react", "^1.0.0"))))]}

\* a reply with one step, a reply with two steps and a provider error
CallOutcomes ==
  {[kind |-> "response",
    content |-> JStr(Stringify(JObj([steps |-> JArr(<<JStr("s")>>)])))],
   [kind |-> "response",
    content |-> JStr(Stringify(JObj([steps |->
                  JArr(<<JObj([description |-> JStr("Add tests")]), JObj(NoFields)>>)])))],
   [kind |-> "throw", error |-> APIError(JNum(401), JStr("invalid_api_key"))]}

\* clocks and random sources for a block that makes nReads readings and
\* nRands draws: the clock stands still or ticks between any two readings,
\* the draws all give the same value
CallEntropy(nReads, nRands) ==
  {[reads |-> [k \in 1..nReads |-> tick * (k - 1)], rands |-> [k \in 1..nRands |-> r]] :
     tick \in {0, 1}, r \in RandomValues}

\* a task read from a field that the call started last has overwritten
callTaskShared(cs, c) ==
  LET started == {d \in DOMAIN cs : cs[d].pc # "idle"}
  IN cs[CHOOSE d \in started : \A d2 \in started : d2 <= d].task

\* the task parameter of call c, as its continuation reads it
callTask(cs, c) == cs[c].task

\* generatePlan(task, options) is called
callStart(call, t) == [call EXCEPT !.pc = "gathering", !.task = t]

\* gatherContext has returned and the prompt is built and sent
callGathered(call, options, ev) ==
  LET g == gatherContext(options, ev)
  IN IF g.kind = "return"
     THEN [call EXCEPT !.pc = "requesting", !.prompt = buildPrompt(call.task, g.value)]
     ELSE [call EXCEPT !.pc = "caught"]

\* the await of the completion call is over
callCompleted(call, o) ==
  [call EXCEPT !.pc = afterOutcome(o, 1).pc, !.outcome = o, !.aiOut = aiGeneratePlan(o)]

\* the rest of generatePlan, up to its return
callFinished(call, t, e) ==
  [call EXCEPT !.pc = "done", !.result = planGeneratePlan(t, call.aiOut, e)]

CallsInit ==
  /\ calls = [c \in CallIds |-> IdleCall]
  /\ sent = <<>>

(***************************************************************************)
(* PlanViewProvider (the host side of the plan view) and webview.js.       *)
(***************************************************************************)
\* a plan that an earlier session left in globalState
OldPlan ==
  [id |-> generateId(-1, 0), task |-> "Set up the linter", steps |-> <<>>,
   createdAt |-> -1, status |-> "draft"]

\* saveRecentPlans writing every plan as a draft
storedPlanAsDraft(p) ==
  [id |-> p.id, task |-> p.task, steps |-> p.steps, createdAt |-> JNum(p.createdAt),
   status |-> "draft"]

\* the element saveRecentPlans writes for a plan: createdAt.getTime()
storedPlan(p) ==
  [id |-> p.id, task |-> p.task, steps |-> p.steps, createdAt |-> JNum(p.createdAt),
   status |-> p.status]

\* the plan loadRecentPlans makes of a stored element: new Date(sp.createdAt)
loadedPlan(sp) == [sp EXCEPT !.createdAt = sp.createdAt.val]

\* the lists globalState can hold when the extension starts
StoredLists == {<<>>, <<storedPlan(OldPlan)>>}

\* what the user can have typed into the task input
TaskInputs == {"  \n", "Fix bug", "  Add a login page  "}

\* the host proceeding whatever the key is
hasApiKeyAlways(key) == TRUE

\* the test `!this._configService.apiKey`, negated
hasApiKey(key) == key # ""

\* the host reporting success whatever the status is
planFailedNever(plan) == FALSE

\* the test `plan.status === "failed"`
planFailed(plan) == plan.status = "failed"

\* a search that finds nothing
findPlanNone(plans, planId) == Undefined

\* this._recentPlans.find((p) => p.id === planId): the plan, or undefined
findPlan(plans, planId) ==
  IF \E i \in DOMAIN plans : plans[i].id = planId
  THEN plans[CHOOSE i \in DOMAIN plans :
               plans[i].id = planId /\ \A j \in 1..(i - 1) : plans[j].id # planId]
  ELSE Undefined

\* the list loadRecentPlans makes of what globalState.get returned, or the
\* empty list of its catch clause
loadRecentPlans(read) ==
  IF read.kind = "return"
  THEN [i \in DOMAIN read.value |-> loadedPlan(read.value[i])]
  ELSE <<>>

\* the list saveRecentPlans passes to globalState.update
savedList(plans) == [i \in DOMAIN plans |-> storedPlan(plans[i])]

\* globalState after saveRecentPlans, the update having succeeded or not
afterSave(old, plans, ok) == IF ok THEN savedList(plans) ELSE old

\* webview handleGenerationComplete: the plan moves to the head of the list
withPlanFirst(plans, plan) ==
  <<plan>> \o SelectSeq(plans, LAMBDA p : p.id # plan.id)

\* webview handlePlanDeleted: the head of the list goes
withoutFirst(plans) == IF Len(plans) > 0 THEN Tail(plans) ELSE plans

\* webview updateUIState: the Generate button is disabled without a
\* configuration and while a plan is generated, and enabled otherwise
updateUIState(w) ==
  [w EXCEPT !.generateDisabled = (~w.hasConfig) \/ w.isGenerating]

\* the input section, with the task input and the Generate button, is shown
\* by updateUIState in its third case only
inputSectionShown(w) == w.hasConfig /\ ~w.isGenerating /\ w.currentPlan = JNull

\* the plan display, with the Delete button, is shown in its last case only
planDisplayShown(w) == w.hasConfig /\ ~w.isGenerating /\ w.currentPlan # JNull

\* the webview state after it handled message m
afterMessage(w, m) ==
  CASE m.type = "generation-start" ->
         updateUIState([w EXCEPT !.isGenerating = TRUE, !.currentPlan = JNull])
    [] m.type = "generation-complete" ->
         updateUIState([w EXCEPT !.isGenerating = FALSE, !.currentPlan = m.plan,
                                 !.recentPlans = withPlanFirst(w.recentPlans, m.plan)])
    [] m.type = "generation-error" ->
         updateUIState([w EXCEPT !.isGenerating = FALSE, !.currentPlan = JNull])
    [] m.type = "plan-selected" -> updateUIState([w EXCEPT !.currentPlan = m.plan])
    [] m.type = "plan-deleted" ->
         updateUIState([w EXCEPT !.currentPlan = JNull,
                                 !.recentPlans = withoutFirst(w.recentPlans)])
    [] m.type = "config-status" -> updateUIState([w EXCEPT !.hasConfig = m.hasConfig])
    [] m.type = "recent-plans" -> [w EXCEPT !.recentPlans = m.plans]
    [] OTHER -> w

\* the toast the webview shows for message m, if any
toastFor(m, last) ==
  CASE m.type = "generation-complete" -> "Plan generated successfully"
    [] m.type = "generation-error" -> m.error
    [] m.type = "plan-deleted" -> "Plan deleted"
    [] OTHER -> last

\* the activations of handleGeneratePlan followed, in the order of the
\* messages that start them
FreeGens == {g \in CallIds : hostGen[g] = "free"}
NextGen == CHOOSE g \in FreeGens : \A h \in FreeGens : g <= h

\* the state object of the webview script and the Generate button as the
\* page is loaded
FreshWebview ==
  [currentPlan |-> JNull, isGenerating |-> FALSE, recentPlans |-> <<>>,
   hasConfig |-> FALSE, generateDisabled |-> FALSE]

\* the provider is constructed (it loads the stored list) and the webview
\* script has run init(), which asks for the configuration status and the
\* recent plans
HostInit ==
  /\ stored \in StoredLists
  /\ recentPlans = [i \in DOMAIN stored |-> loadedPlan(stored[i])]
  /\ currentPlan = JNull
  /\ hostGen = [g \in CallIds |-> "free"]
  /\ deleting = 0
  /\ posted = <<>>
  /\ toHost = <<[type |-> "checkConfig"], [type |-> "getRecentPlans"]>>
  /\ seen = 0
  /\ wv = FreshWebview
  /\ toast = ""
  /\ clicks = [generate |-> 0, delete |-> 0, select |-> 0, settings |-> 0, shown |-> 0]

\* the plan view is not open
ViewClosed ==
  /\ currentPlan = JNull
  /\ hostGen = [g \in CallIds |-> "free"]
  /\ deleting = 0
  /\ posted = <<>>
  /\ toHost = <<>>
  /\ seen = 0
  /\ wv = FreshWebview
  /\ toast = ""
  /\ clicks = [generate |-> 0, delete |-> 0, select |-> 0, settings |-> 0, shown |-> 0]

\* no plan view, and nothing in globalState
NoHost ==
  /\ stored = <<>>
  /\ recentPlans = <<>>
  /\ ViewClosed

DEFAULT_ENDPOINT == ""
DEFAULT_MODEL == "claude-3-5-sonnet-20241022"
DEFAULT_MAX_TOKENS == 4096

\* what config.get returns for the four settings when none is set: the
\* empty values, for which the getters of ConfigService give the defaults
UnsetSettings == [apiKey |-> "", endpoint |-> "", model |-> "", maxTokens |-> 0]

\* ConfigService.aiConfig over the WorkspaceConfiguration cfg
aiConfig(cfg, anthropic, openai) ==
  [apiKey |-> apiKey(cfg.apiKey, anthropic, openai),
   endpoint |-> IF cfg.endpoint # "" THEN cfg.endpoint ELSE DEFAULT_ENDPOINT,
   model |-> IF cfg.model # "" THEN cfg.model ELSE DEFAULT_MODEL,
   maxTokens |-> IF cfg.maxTokens # 0 THEN cfg.maxTokens ELSE DEFAULT_MAX_TOKENS]

\* the settings are not followed
NoSettings ==
  /\ workspaceSettings = UnsetSettings
  /\ loaded = UnsetSettings
  /\ timerPending = FALSE

\* getConfig handing out the object the service holds
getConfigReturnsReference(cfg) == [val |-> cfg, same |-> TRUE]

\* AIService.getConfig: { ...this.config }, a new object with the same fields
getConfig(cfg) == [val |-> cfg, same |-> FALSE]

\* updateConfig assigns a new object to this.config: an object handed out
\* before is no longer the one the service holds
released(held) == IF held = None THEN None ELSE [held EXCEPT !.same = FALSE]

\* no caller holds a configuration object
NoCopy == got = None

OuterInit == KeyInit /\ CallsInit /\ NoHost /\ NoSettings /\ NoCopy

\* no call has been made
PlanInit ==
  /\ pc = "idle"
  /\ task = ""
  /\ callOptions = Undefined
  /\ environment = None
  /\ ctxOut = None
  /\ prompt = ""
  /\ config = DefaultConfig
  /\ client = newClient(DefaultConfig)
  /\ request = None
  /\ requests = 0
  /\ providerOutcome = None
  /\ aiOut = None
  /\ normOut = None
  /\ result = None

Init == PlanInit /\ OuterInit

\* the caller invokes generatePlan(task, options); gatherContext starts
Start(t, o) ==
  /\ pc = "idle"
  /\ pc' = "gathering"
  /\ task' = t
  /\ callOptions' = o
  /\ UNCHANGED <<environment, ctxOut, prompt, config, client, request, requests, providerOutcome,
                 aiOut, normOut, result>>
  /\ UNCHANGED outerVars

\* gatherContext completes in the environment it finds; the prompt is built
\* and the completion request is issued through the client.  A thrown
\* completion would enter the catch block of generatePlan.
ContextGathered(ev) ==
  /\ pc = "gathering"
  /\ environment' = ev
  /\ ctxOut' = gatherContext(callOptions, ev)
  /\ prompt' = IF gatherContext(callOptions, ev).kind = "return"
               THEN buildPrompt(task, gatherContext(callOptions, ev).value)
               ELSE prompt
  /\ IF gatherContext(callOptions, ev).kind = "return"
     THEN /\ pc' = "requesting"
          /\ requests' = requests + 1
          /\ request' = createRequest(config, client)
     ELSE /\ pc' = "caught"
          /\ UNCHANGED <<requests, request>>
  /\ UNCHANGED <<task, callOptions, config, client, providerOutcome, aiOut, normOut, result>>
  /\ UNCHANGED outerVars

\* the provider's outcome arrives and AIService.generatePlan completes
Complete(o) ==
  /\ pc = "requesting"
  /\ providerOutcome' = o
  /\ pc' = afterOutcome(o, requests).pc
  /\ requests' = afterOutcome(o, requests).requests
  /\ aiOut' = IF afterOutcome(o, requests).pc = "responded" THEN aiGeneratePlan(o) ELSE aiOut
  /\ UNCHANGED <<task, callOptions, environment, ctxOut, prompt, config, client, request, normOut, result>>
  /\ UNCHANGED outerVars

\* PlanService.generatePlan resumes: parsePlanResponse or the catch block, with
\* the clock readings and random draws the block makes
Finish ==
  /\ pc = "responded"
  /\ \E e \in Entropy(readsDrawn(aiOut), idsDrawn(aiOut)) :
       /\ normOut' = normalized(task, aiOut, e)
       /\ result' = planGeneratePlan(task, aiOut, e)
  /\ pc' = "done"
  /\ UNCHANGED <<task, callOptions, environment, ctxOut, prompt, config, client, request, requests,
                 providerOutcome, aiOut>>
  /\ UNCHANGED outerVars

\* the settings listener calls aiService.updateConfig(partial); it runs to
\* completion between the steps of a generatePlan call
UpdateConfig(partial) ==
  /\ config' = updateConfig(config, client, partial).config
  /\ client' = updateConfig(config, client, partial).client
  /\ got' = released(got)
  /\ UNCHANGED <<pc, task, callOptions, environment, ctxOut, prompt, request, requests, providerOutcome,
                 aiOut, normOut, result>>
  /\ UNCHANGED <<keyVars, callVars, hostVars, wvVars, settingsVars>>

\* one call of the plan view, outside any workspace, under the default
\* configuration
Next ==
  \/ \E t \in Tasks : Start(t, AllOptions)
  \/ ContextGathered(BareEnvironment)
  \/ \E o \in ProviderOutcomes : Complete(o)
  \/ Finish

Spec == Init /\ [][Next]_vars

(***************************************************************************)
(* Calls in every environment and with every options argument, followed up *)
(* to the request.                                                         *)
(***************************************************************************)
NextContext ==
  \/ \E o \in OptionsValues : Start("Add login", o)
  \/ \E ev \in Environments : ContextGathered(ev)

SpecContext == Init /\ [][NextContext]_vars

(***************************************************************************)
(* Calls under every configuration, with settings changes between their   *)
(* steps.                                                                  *)
(***************************************************************************)
InitConfig ==
  /\ pc = "idle"
  /\ task = ""
  /\ callOptions = Undefined
  /\ environment = None
  /\ ctxOut = None
  /\ prompt = ""
  /\ config \in Configs
  /\ client = newClient(config)
  /\ request = None
  /\ requests = 0
  /\ providerOutcome = None
  /\ aiOut = None
  /\ normOut = None
  /\ result = None
  /\ OuterInit

\* one reply with a plan and one provider error
FewOutcomes ==
  {[kind |-> "response", content |-> JStr(Stringify(JObj([steps |-> JArr(<<JStr("s")>>)])))],
   [kind |-> "throw", error |-> APIError(JNum(401), JStr("invalid_api_key"))]}

NextConfig ==
  \/ Start("Add login", AllOptions)
  \/ ContextGathered(BareEnvironment)
  \/ \E o \in FewOutcomes : Complete(o)
  \/ Finish
  \/ \E partial \in Partials : UpdateConfig(partial)

SpecConfig == InitConfig /\ [][NextConfig]_vars

(***************************************************************************)
(* The apiKey getter under every setting and environment.                  *)
(***************************************************************************)
InitApiKey ==
  /\ setting \in Settings
  /\ envAnthropic \in AnthropicValues
  /\ envOpenAI \in OpenAIValues
  /\ keyRead = None
  /\ PlanInit
  /\ CallsInit
  /\ NoHost
  /\ NoSettings
  /\ NoCopy

\* a read of configService.apiKey
ReadApiKey ==
  /\ keyRead.kind = "none"
  /\ keyRead' = Return(apiKey(setting, envAnthropic, envOpenAI))
  /\ UNCHANGED <<setting, envAnthropic, envOpenAI>>
  /\ UNCHANGED <<planVars, callVars, hostVars, wvVars, settingsVars, copyVars>>

NextApiKey == ReadApiKey

SpecApiKey == InitApiKey /\ [][NextApiKey]_vars

(***************************************************************************)
(* Two calls of generatePlan issued together, each with a task of its own. *)
(***************************************************************************)
TaskOfCall == [c \in CallIds |-> IF c = 1 THEN "Add login" ELSE "Fix bug"]

CallStart(c, t) ==
  /\ calls[c].pc = "idle"
  /\ calls' = [calls EXCEPT ![c] = callStart(calls[c], t)]
  /\ UNCHANGED <<sent, planVars, keyVars, settingsVars, copyVars, hostVars, wvVars>>

CallGathered(c, ev) ==
  /\ calls[c].pc = "gathering"
  /\ calls' = [calls EXCEPT ![c] = callGathered(calls[c], AllOptions, ev)]
  /\ sent' = IF callGathered(calls[c], AllOptions, ev).pc = "requesting"
             THEN Append(sent, [call |-> c,
                                prompt |-> callGathered(calls[c], AllOptions, ev).prompt,
                                request |-> createRequest(config, client)])
             ELSE sent
  /\ UNCHANGED <<planVars, keyVars, settingsVars, copyVars, hostVars, wvVars>>

CallCompleted(c, o) ==
  /\ calls[c].pc = "requesting"
  /\ calls' = [calls EXCEPT ![c] = callCompleted(calls[c], o)]
  /\ UNCHANGED <<sent, planVars, keyVars, settingsVars, copyVars, hostVars, wvVars>>

CallFinished(c) ==
  /\ calls[c].pc = "responded"
  /\ \E e \in CallEntropy(readsDrawn(calls[c].aiOut), idsDrawn(calls[c].aiOut)) :
       calls' = [calls EXCEPT ![c] = callFinished(calls[c], callTask(calls, c), e)]
  /\ UNCHANGED <<sent, planVars, keyVars, settingsVars, copyVars, hostVars, wvVars>>

NextTwoCalls ==
  \/ \E c \in CallIds : CallStart(c, TaskOfCall[c])
  \/ \E c \in CallIds : \E ev \in CallEnvironments : CallGathered(c, ev)
  \/ \E c \in CallIds : \E o \in CallOutcomes : CallCompleted(c, o)
  \/ \E c \in CallIds : CallFinished(c)

\* the file system answers, the completion request resolves or is rejected
\* (the client gives up after its timeout), and the event loop runs every
\* continuation that is ready
SpecTwoCalls ==
  /\ Init
  /\ [][NextTwoCalls]_vars
  /\ \A c \in CallIds :
       /\ WF_vars(\E ev \in CallEnvironments : CallGathered(c, ev))
       /\ WF_vars(\E o \in CallOutcomes : CallCompleted(c, o))
       /\ WF_vars(CallFinished(c))

(***************************************************************************)
(* The plan view: the webview sends messages, the host handles them, runs  *)
(* generations side by side and posts messages back.                       *)
(***************************************************************************)
MaxClicks == 3

\* posted messages carry the activation of handleGeneratePlan that posted
\* them; the other handlers post with no activation
NoGen == 0
MaxDeleteClicks == 2
MaxSelectClicks == 1

\* what the user has done in the webview so far
Clicked ==
  clicks.generate + clicks.delete + clicks.select + clicks.settings + clicks.shown

\* the clock and Math.random as the g-th generation finds them
HostEntropy(g, nReads, nRands) ==
  [reads |-> [k \in 1..nReads |-> g], rands |-> [k \in 1..nRands |-> g - 1]]

\* the settings the view is used under: a blank key and a key
HostSettings == {[UnsetSettings EXCEPT !.apiKey = k] : k \in {" ", "  sk-set\n"}}

\* sendConfigInfo: the message for the footer
configInfo(cfg, anthropic, openai) ==
  [type |-> "config-info", gen |-> NoGen,
   model |-> aiConfig(cfg, anthropic, openai).model,
   endpoint |-> IF aiConfig(cfg, anthropic, openai).endpoint # ""
                THEN aiConfig(cfg, anthropic, openai).endpoint ELSE "default",
   hasConfig |-> aiConfig(cfg, anthropic, openai).apiKey # ""]

\* sendConfigStatus: config-status, then the message for the footer
configStatus(cfg, anthropic, openai) ==
  <<[type |-> "config-status", gen |-> NoGen,
     hasConfig |-> aiConfig(cfg, anthropic, openai).apiKey # ""],
    configInfo(cfg, anthropic, openai)>>

\* a reply with one step and a provider error
HostOutcomes ==
  {[kind |-> "response",
    content |-> JStr(Stringify(JObj([steps |-> JArr(<<JObj(NoFields)>>)])))],
   [kind |-> "throw", error |-> APIError(JNum(401), JStr("invalid_api_key"))]}

\* activate has run under the settings it found: ConfigService holds them
\* and AIService is constructed with its aiConfig; the view is resolved
InitHost ==
  /\ pc = "idle"
  /\ task = ""
  /\ callOptions = Undefined
  /\ environment = None
  /\ ctxOut = None
  /\ prompt = ""
  /\ workspaceSettings \in HostSettings
  /\ loaded = workspaceSettings
  /\ timerPending = FALSE
  /\ setting = ""
  /\ envAnthropic = Undefined
  /\ envOpenAI = Undefined
  /\ keyRead = None
  /\ config = aiConfig(loaded, envAnthropic, envOpenAI)
  /\ client = newClient(config)
  /\ request = None
  /\ requests = 0
  /\ providerOutcome = None
  /\ aiOut = None
  /\ normOut = None
  /\ result = None
  /\ NoCopy
  /\ CallsInit
  /\ HostInit

\* webview handleGenerate
HandleGenerate(input) ==
  /\ Clicked < MaxClicks
  /\ clicks.generate < Cardinality(CallIds)
  /\ clicks' = [clicks EXCEPT !.generate = @ + 1]
  /\ IF Trim(input) = ""
     THEN /\ toast' = "Please enter a task description"
          /\ UNCHANGED <<toHost, wv>>
     ELSE /\ toHost' = Append(toHost, [type |-> "generatePlan", task |-> Trim(input)])
          /\ wv' = [wv EXCEPT !.generateDisabled = TRUE]
          /\ UNCHANGED toast
  /\ UNCHANGED <<seen, hostGen, currentPlan, recentPlans, stored, deleting, posted>>
  /\ UNCHANGED <<planVars, keyVars, settingsVars, copyVars, callVars>>

\* a click on the Generate button, which is shown and enabled
WvGenerate(input) ==
  /\ inputSectionShown(wv)
  /\ ~wv.generateDisabled
  /\ HandleGenerate(input)

\* Ctrl/Cmd+Enter in the task input, which is shown
WvShortcut(input) ==
  /\ inputSectionShown(wv)
  /\ HandleGenerate(input)

\* the user changes the key in the settings: the listener of activate
\* reloads ConfigService and updates AIService, the listener of the view
\* reloads and posts the configuration
SettingsChanged(s) ==
  /\ Clicked < MaxClicks
  /\ s # workspaceSettings
  /\ clicks' = [clicks EXCEPT !.settings = @ + 1]
  /\ workspaceSettings' = s
  /\ loaded' = s
  /\ config' = updateConfig(config, client, aiConfig(s, envAnthropic, envOpenAI)).config
  /\ client' = updateConfig(config, client, aiConfig(s, envAnthropic, envOpenAI)).client
  /\ got' = released(got)
  /\ posted' = posted \o <<configInfo(s, envAnthropic, envOpenAI)>>
                      \o configStatus(s, envAnthropic, envOpenAI)
  /\ UNCHANGED <<pc, task, callOptions, environment, ctxOut, prompt, request, requests,
                 providerOutcome, aiOut, normOut, result>>
  /\ UNCHANGED <<toHost, hostGen, currentPlan, recentPlans, stored, deleting>>
  /\ UNCHANGED <<seen, wv, toast, timerPending, keyVars, callVars>>

\* the click listener of the Delete button, which is shown
WvDelete ==
  /\ planDisplayShown(wv)
  /\ Clicked < MaxClicks
  /\ clicks.delete < MaxDeleteClicks
  /\ clicks' = [clicks EXCEPT !.delete = @ + 1]
  /\ toHost' = Append(toHost, [type |-> "deletePlan"])
  /\ UNCHANGED <<seen, wv, toast, hostGen, currentPlan, recentPlans, stored, deleting, posted>>
  /\ UNCHANGED <<planVars, keyVars, settingsVars, copyVars, callVars>>

\* the click listener of the i-th entry of the rendered plans list
WvSelect(i) ==
  /\ Clicked < MaxClicks
  /\ clicks.select < MaxSelectClicks
  /\ i \in DOMAIN wv.recentPlans
  /\ clicks' = [clicks EXCEPT !.select = @ + 1]
  /\ toHost' = Append(toHost, [type |-> "selectPlan", planId |-> wv.recentPlans[i].id])
  /\ UNCHANGED <<seen, wv, toast, hostGen, currentPlan, recentPlans, stored, deleting, posted>>
  /\ UNCHANGED <<planVars, keyVars, settingsVars, copyVars, callVars>>

\* the message listener of the webview handles the next posted message
WvReceive ==
  /\ seen < Len(posted)
  /\ seen' = seen + 1
  /\ wv' = afterMessage(wv, posted[seen + 1])
  /\ toast' = toastFor(posted[seen + 1], toast)
  /\ UNCHANGED <<clicks, hostVars>>
  /\ UNCHANGED <<planVars, keyVars, settingsVars, copyVars, callVars>>

\* handleGeneratePlan up to its await: the key check, generation-start and
\* the call of planService.generatePlan, which runs up to gatherContext
HostGeneratePlan ==
  /\ toHost # <<>>
  /\ Head(toHost).type = "generatePlan"
  /\ FreeGens # {}
  /\ toHost' = Tail(toHost)
  /\ keyRead' = Return(aiConfig(loaded, envAnthropic, envOpenAI).apiKey)
  /\ IF hasApiKey(aiConfig(loaded, envAnthropic, envOpenAI).apiKey)
     THEN /\ posted' = Append(posted, [type |-> "generation-start", gen |-> NextGen])
          /\ hostGen' = [hostGen EXCEPT ![NextGen] = "generating"]
          /\ calls' = [calls EXCEPT ![NextGen] = callStart(calls[NextGen], Head(toHost).task)]
     ELSE /\ posted' = Append(posted,
                         [type |-> "generation-error", gen |-> NextGen,
                          error |-> "API key not configured. Please set your API key in settings."])
          /\ hostGen' = [hostGen EXCEPT ![NextGen] = "rejected"]
          /\ UNCHANGED calls
  /\ UNCHANGED <<currentPlan, recentPlans, stored, deleting, sent>>
  /\ UNCHANGED <<setting, envAnthropic, envOpenAI, planVars, wvVars, settingsVars, copyVars>>

\* the rest of generatePlan for the call the host made, up to its return
HostCallFinished(g) ==
  /\ calls[g].pc = "responded"
  /\ calls' = [calls EXCEPT ![g] =
                 callFinished(calls[g], callTask(calls, g),
                              HostEntropy(g, readsDrawn(calls[g].aiOut),
                                          idsDrawn(calls[g].aiOut)))]
  /\ UNCHANGED <<sent, planVars, keyVars, settingsVars, copyVars, hostVars, wvVars>>

\* handleGeneratePlan resumes with the plan generatePlan returned: a failed
\* plan is reported, any other becomes the current plan and the list is
\* saved; a rejection of generatePlan is reported by the catch clause
HostReturned(g) ==
  /\ hostGen[g] = "generating"
  /\ calls[g].pc = "done"
  /\ IF calls[g].result.kind = "throw"
     THEN /\ posted' = Append(posted, [type |-> "generation-error", gen |-> g,
                                       error |-> calls[g].result.error.message])
          /\ hostGen' = [hostGen EXCEPT ![g] = "errored"]
          /\ UNCHANGED <<currentPlan, stored>>
     ELSE IF planFailed(calls[g].result.value)
     THEN /\ posted' = Append(posted,
                         [type |-> "generation-error", gen |-> g,
                          error |-> "Failed to generate plan. Please check your API configuration and try again."])
          /\ hostGen' = [hostGen EXCEPT ![g] = "errored"]
          /\ UNCHANGED <<currentPlan, stored>>
     ELSE /\ currentPlan' = calls[g].result.value
          /\ \E ok \in BOOLEAN : stored' = afterSave(stored, recentPlans, ok)
          /\ hostGen' = [hostGen EXCEPT ![g] = "saving"]
          /\ UNCHANGED posted
  /\ UNCHANGED <<toHost, recentPlans, deleting>>
  /\ UNCHANGED <<planVars, keyVars, settingsVars, copyVars, callVars, wvVars>>

\* the await of saveRecentPlans is over: generation-complete is posted
HostSaved(g) ==
  /\ hostGen[g] = "saving"
  /\ posted' = Append(posted, [type |-> "generation-complete", gen |-> g,
                               plan |-> calls[g].result.value])
  /\ hostGen' = [hostGen EXCEPT ![g] = "completed"]
  /\ UNCHANGED <<toHost, currentPlan, recentPlans, stored, deleting>>
  /\ UNCHANGED <<planVars, keyVars, settingsVars, copyVars, callVars, wvVars>>

\* handleSelectPlan
HostSelectPlan ==
  /\ toHost # <<>>
  /\ Head(toHost).type = "selectPlan"
  /\ toHost' = Tail(toHost)
  /\ IF findPlan(recentPlans, Head(toHost).planId) # Undefined
     THEN /\ currentPlan' = findPlan(recentPlans, Head(toHost).planId)
          /\ posted' = Append(posted, [type |-> "plan-selected", gen |-> NoGen,
                                       plan |-> findPlan(recentPlans, Head(toHost).planId)])
     ELSE UNCHANGED <<currentPlan, posted>>
  /\ UNCHANGED <<hostGen, recentPlans, stored, deleting>>
  /\ UNCHANGED <<planVars, keyVars, settingsVars, copyVars, callVars, wvVars>>

\* handleDeletePlan up to its await: the current plan is dropped and the
\* list is saved
HostDeletePlan ==
  /\ toHost # <<>>
  /\ Head(toHost).type = "deletePlan"
  /\ toHost' = Tail(toHost)
  /\ currentPlan' = JNull
  /\ \E ok \in BOOLEAN : stored' = afterSave(stored, recentPlans, ok)
  /\ deleting' = deleting + 1
  /\ UNCHANGED <<hostGen, recentPlans, posted>>
  /\ UNCHANGED <<planVars, keyVars, settingsVars, copyVars, callVars, wvVars>>

\* the await of saveRecentPlans is over: plan-deleted is posted
HostDeleted ==
  /\ deleting > 0
  /\ deleting' = deleting - 1
  /\ posted' = Append(posted, [type |-> "plan-deleted", gen |-> NoGen])
  /\ UNCHANGED <<toHost, hostGen, currentPlan, recentPlans, stored>>
  /\ UNCHANGED <<planVars, keyVars, settingsVars, copyVars, callVars, wvVars>>

\* sendConfigStatus, on a checkConfig message
HostCheckConfig ==
  /\ toHost # <<>>
  /\ Head(toHost).type = "checkConfig"
  /\ toHost' = Tail(toHost)
  /\ posted' = posted \o configStatus(loaded, envAnthropic, envOpenAI)
  /\ UNCHANGED <<hostGen, currentPlan, recentPlans, stored, deleting>>
  /\ UNCHANGED <<planVars, keyVars, settingsVars, copyVars, callVars, wvVars>>

\* sendRecentPlans, on a getRecentPlans message
HostGetRecentPlans ==
  /\ toHost # <<>>
  /\ Head(toHost).type = "getRecentPlans"
  /\ toHost' = Tail(toHost)
  /\ posted' = Append(posted, [type |-> "recent-plans", gen |-> NoGen, plans |-> recentPlans])
  /\ UNCHANGED <<hostGen, currentPlan, recentPlans, stored, deleting>>
  /\ UNCHANGED <<planVars, keyVars, settingsVars, copyVars, callVars, wvVars>>

NextHost ==
  \/ \E input \in TaskInputs : WvGenerate(input)
  \/ \E input \in TaskInputs : WvShortcut(input)
  \/ \E s \in HostSettings : SettingsChanged(s)
  \/ HostCheckConfig
  \/ WvDelete
  \/ \E i \in 1..Cardinality(CallIds) + 1 : WvSelect(i)
  \/ WvReceive
  \/ HostGeneratePlan
  \/ \E g \in CallIds : HostReturned(g)
  \/ \E g \in CallIds : HostSaved(g)
  \/ HostSelectPlan
  \/ HostDeletePlan
  \/ HostDeleted
  \/ HostGetRecentPlans
  \/ \E g \in CallIds : CallGathered(g, BareEnvironment)
  \/ \E g \in CallIds : \E o \in HostOutcomes : CallCompleted(g, o)
  \/ \E g \in CallIds : HostCallFinished(g)

SpecHost == InitHost /\ [][NextHost]_vars

(***************************************************************************)
(* AIService.getConfig and updateConfig, with a caller that changes the    *)
(* object it got.                                                          *)
(***************************************************************************)
\* a caller asks for the configuration
GetConfig ==
  /\ got' = getConfig(config)
  /\ UNCHANGED <<planVars, keyVars, callVars, hostVars, wvVars, settingsVars>>

\* the caller assigns to a field of the object it got; the service sees the
\* assignment if that object is the one it holds
MutateCopy(k, v) ==
  /\ got # None
  /\ got' = [got EXCEPT !.val[k] = v]
  /\ config' = IF got.same THEN [config EXCEPT ![k] = v] ELSE config
  /\ UNCHANGED <<pc, task, callOptions, environment, ctxOut, prompt, client, request, requests,
                 providerOutcome, aiOut, normOut, result>>
  /\ UNCHANGED <<keyVars, callVars, hostVars, wvVars, settingsVars>>

NextGetConfig ==
  \/ \E partial \in Partials : UpdateConfig(partial)
  \/ GetConfig
  \/ \E k \in ConfigFields : \E c \in Configs : MutateCopy(k, c[k])

SpecGetConfig == InitConfig /\ [][NextGetConfig]_vars

(***************************************************************************)
(* The plan history in globalState: saveRecentPlans and loadRecentPlans.   *)
(***************************************************************************)
\* a plan made from a reply with one step, and the plan of a failed call
GeneratedPlan ==
  planGeneratePlan("Fix bug",
                   aiGeneratePlan([kind |-> "response",
                                   content |-> JStr(Stringify(JObj([steps |-> JArr(<<JObj(NoFields)>>)])))]),
                   HostEntropy(1, 3, 2)).value
FailedPlan == failedPlan("Add a login page", HostEntropy(2, 2, 1), 0, 0)

\* a plan made from a reply with two steps
LongerPlan ==
  planGeneratePlan("Add a login page",
                   aiGeneratePlan([kind |-> "response",
                                   content |-> JStr(Stringify(JObj([steps |->
                                     JArr(<<JObj(NoFields), JObj(NoFields)>>)])))]),
                   HostEntropy(3, 4, 3)).value

HistoryPlans == {OldPlan, GeneratedPlan, FailedPlan, LongerPlan}

MaxHistory == 3

\* the lists of different plans
PlanLists ==
  {l \in UNION {[1..n -> HistoryPlans] : n \in 0..MaxHistory} :
     \A i \in DOMAIN l : \A j \in DOMAIN l : l[i] = l[j] => i = j}

\* the provider holds a list of plans, globalState the list of an earlier
\* session
InitHistory ==
  /\ PlanInit
  /\ KeyInit
  /\ CallsInit
  /\ NoSettings
  /\ NoCopy
  /\ ViewClosed
  /\ recentPlans \in PlanLists
  /\ stored \in StoredLists

\* saveRecentPlans, the update of globalState succeeding or not
SaveRecentPlans(ok) ==
  /\ stored' = afterSave(stored, recentPlans, ok)
  /\ UNCHANGED <<toHost, hostGen, currentPlan, recentPlans, deleting, posted>>
  /\ UNCHANGED <<planVars, keyVars, settingsVars, copyVars, callVars, wvVars>>

\* loadRecentPlans, globalState.get returning the stored list or throwing
LoadRecentPlans(ok) ==
  /\ recentPlans' = loadRecentPlans(IF ok THEN Return(stored)
                                     ELSE Throw([class |-> "Error", message |-> "storage"]))
  /\ UNCHANGED <<toHost, hostGen, currentPlan, stored, deleting, posted>>
  /\ UNCHANGED <<planVars, keyVars, settingsVars, copyVars, callVars, wvVars>>

NextHistory ==
  \/ \E ok \in BOOLEAN : SaveRecentPlans(ok)
  \/ \E ok \in BOOLEAN : LoadRecentPlans(ok)

SpecHistory == InitHistory /\ [][NextHistory]_vars

(***************************************************************************)
(* The configuration: settings changes, the reloads of ConfigService and   *)
(* the requests issued under them.                                         *)
(***************************************************************************)
\* a blank key, a key with the defaults, and a key with an endpoint, a
\* model and a token ceiling
SettingsValues ==
  {[UnsetSettings EXCEPT !.apiKey = " "],
   [UnsetSettings EXCEPT !.apiKey = "sk-set"],
   [apiKey |-> " sk-other ", endpoint |-> "https://proxy.local/v1", model |-> "gpt-4o",
    maxTokens |-> 1024]}

\* activate has just run: the start-up timer is still to fire
InitSettings ==
  /\ pc = "idle"
  /\ task = ""
  /\ callOptions = Undefined
  /\ environment = None
  /\ ctxOut = None
  /\ prompt = ""
  /\ workspaceSettings \in SettingsValues
  /\ loaded = workspaceSettings
  /\ timerPending = TRUE
  /\ setting = ""
  /\ envAnthropic = Undefined
  /\ envOpenAI = Undefined
  /\ keyRead = None
  /\ config = aiConfig(loaded, envAnthropic, envOpenAI)
  /\ client = newClient(config)
  /\ request = None
  /\ requests = 0
  /\ providerOutcome = None
  /\ aiOut = None
  /\ normOut = None
  /\ result = None
  /\ NoCopy
  /\ CallsInit
  /\ HostInit

\* the start-up timer of activate fires: ConfigService reloads the settings
DelayedReload ==
  /\ timerPending
  /\ timerPending' = FALSE
  /\ loaded' = workspaceSettings
  /\ UNCHANGED <<workspaceSettings, planVars, keyVars, copyVars, callVars, hostVars, wvVars>>

\* the view becomes visible: ConfigService reloads the settings and the
\* configuration status and the recent plans are posted
ViewVisible ==
  /\ Clicked < MaxClicks
  /\ clicks' = [clicks EXCEPT !.shown = @ + 1]
  /\ loaded' = workspaceSettings
  /\ posted' = posted \o configStatus(workspaceSettings, envAnthropic, envOpenAI)
                      \o <<[type |-> "recent-plans", gen |-> NoGen, plans |-> recentPlans]>>
  /\ UNCHANGED <<toHost, hostGen, currentPlan, recentPlans, stored, deleting>>
  /\ UNCHANGED <<seen, wv, toast, workspaceSettings, timerPending>>
  /\ UNCHANGED <<planVars, keyVars, copyVars, callVars>>

\* the generations are followed up to the completion request
NextSettings ==
  \/ \E s \in SettingsValues : SettingsChanged(s)
  \/ DelayedReload
  \/ ViewVisible
  \/ \E input \in TaskInputs : WvGenerate(input)
  \/ WvReceive
  \/ HostCheckConfig
  \/ HostGetRecentPlans
  \/ HostGeneratePlan
  \/ \E g \in CallIds : CallGathered(g, BareEnvironment)

SpecSettings == InitSettings /\ [][NextSettings]_vars

\* the generations alone: the user only asks for plans
NextGenerations ==
  \/ \E input \in TaskInputs : WvGenerate(input)
  \/ \E input \in TaskInputs : WvShortcut(input)
  \/ WvReceive
  \/ HostCheckConfig
  \/ HostGetRecentPlans
  \/ HostGeneratePlan
  \/ \E g \in CallIds : CallGathered(g, BareEnvironment)
  \/ \E g \in CallIds : \E o \in HostOutcomes : CallCompleted(g, o)
  \/ \E g \in CallIds : HostCallFinished(g)
  \/ \E g \in CallIds : HostReturned(g)
  \/ \E g \in CallIds : HostSaved(g)

\* every generation that was started runs on: its call completes as in
\* SpecTwoCalls, and the host's continuations run when they are ready
SpecGenerations ==
  /\ InitHost
  /\ [][NextGenerations]_vars
  /\ \A g \in CallIds :
       /\ WF_vars(CallGathered(g, BareEnvironment))
       /\ WF_vars(\E o \in HostOutcomes : CallCompleted(g, o))
       /\ WF_vars(HostCallFinished(g))
       /\ WF_vars(HostReturned(g))
       /\ WF_vars(HostSaved(g))

(***************************************************************************)
(* Properties.                                                             *)
(***************************************************************************)
PlanFields == {"id", "task", "steps", "createdAt", "status"}

ErrorKinds == {"authentication", "rate_limit", "bad_request", "network", "unknown"}

\* the value the completion call returned, handed to parsePlanResponse
Raw == aiOut.value

\* the call of generatePlan has returned or raised
Done == pc = "done"

\* parsePlanResponse was called and returned a plan
Normalized == Done /\ normOut.kind = "return"

\* the elements of raw.steps: those of the array, none when raw is no object,
\* has no steps or steps is no sequence of elements
SourceElements(raw) ==
  IF raw.kind = "object" /\ "steps" \in DOMAIN raw.val /\ raw.val.steps.kind = "array"
  THEN raw.val.steps.val
  ELSE <<>>

\* an element is object-shaped: an object or an array, not null nor a primitive
ObjectShaped(el) == el.kind \in {"object", "array"}

\* the zero-based indices of the object-shaped elements
ObjectIndices(src) == {i \in 0..(Len(src) - 1) : ObjectShaped(src[i + 1])}

\* the k-th smallest member of a set of numbers
KthSmallest(S, k) == CHOOSE x \in S : Cardinality({y \in S : y < x}) = k - 1

\* C1: generatePlan never raises to its caller: whatever the completion call
\* and the response parsing do, throwing included, the call completes by
\* returning a Plan value.
C1_GeneratePlanNeverRaises ==
  Done => /\ result.kind = "return"
          /\ DOMAIN result.value = PlanFields
          /\ result.value.task \in Tasks

\* the call has returned a plan although parsePlanResponse raised
C1_Witness == Done /\ normOut.kind = "throw" /\ result.kind = "return"

\* C2: whenever the completion client raises a classified error, generatePlan
\* returns a Plan with status failed, no steps and the original task.
C2_ClassifiedErrorGivesFailedPlan ==
  (Done /\ aiOut.kind = "throw") =>
     /\ aiOut.error.type \in ErrorKinds
     /\ result.kind = "return"
     /\ result.value.status = "failed"
     /\ result.value.steps = <<>>
     /\ result.value.task = task

\* a 429 of the provider has been turned into the failed plan
C2_Witness ==
  /\ Done
  /\ aiOut.kind = "throw"
  /\ aiOut.error.type = "rate_limit"
  /\ aiOut.error.original.status = JNum(429)
  /\ result.value.status = "failed"

\* C3: every Plan generatePlan returns has a status among draft, active and
\* failed, and is active exactly when it has steps; draft and failed plans
\* have none.
C3_StatusStateMachine ==
  (Done /\ result.kind = "return") =>
     /\ result.value.status \in {"draft", "active", "failed"}
     /\ (result.value.status = "active") <=> (result.value.steps # <<>>)
     /\ (result.value.status \in {"draft", "failed"}) => (result.value.steps = <<>>)

\* an active plan with two steps, and so not an empty one, has been returned
C3_Witness ==
  /\ Done
  /\ result.kind = "return"
  /\ result.value.status = "active"
  /\ Len(result.value.steps) = 2

\* raw is not an object whose steps property is an array
ShapeMismatch(raw) ==
  ~(raw.kind = "object" /\ "steps" \in DOMAIN raw.val /\ raw.val.steps.kind = "array")

\* C4: parsePlanResponse never raises: for every JSON value it returns a Plan,
\* and on any shape mismatch that Plan has no steps and status draft.
C4_NormalizerNeverRaises ==
  (Done /\ aiOut.kind = "return") =>
     /\ normOut.kind = "return"
     /\ ShapeMismatch(Raw) => (normOut.value.steps = <<>> /\ normOut.value.status = "draft")

\* C5: the number of steps of the normalized Plan is the number of
\* object-shaped elements of raw.steps (none when raw.steps is absent or raw is
\* no object); an element that is not object-shaped gives no step and does not
\* stop the iteration: every later object-shaped element still gives its step.
C5_StepCount ==
  /\ Normalized =>
       /\ Len(normOut.value.steps) = Cardinality(ObjectIndices(SourceElements(Raw)))
       /\ {normOut.value.steps[k].order : k \in 1..Len(normOut.value.steps)}
            = ObjectIndices(SourceElements(Raw))
  /\ (Done /\ aiOut.kind = "return") =>
       Len(result.value.steps) = Cardinality(ObjectIndices(SourceElements(Raw)))

\* an object-shaped element after one that is not has given the only step
C5_Witness ==
  /\ Normalized
  /\ Len(SourceElements(Raw)) = 2
  /\ ~ObjectShaped(SourceElements(Raw)[1])
  /\ ObjectShaped(SourceElements(Raw)[2])
  /\ Len(normOut.value.steps) = 1

\* C6: the order of each normalized step is the zero-based index in raw.steps
\* of the element it was made from, never the order field that element carries.
C6_OrderIsSourceIndex ==
  Normalized =>
    \A k \in 1..Len(normOut.value.steps) :
       /\ Cardinality(ObjectIndices(SourceElements(Raw))) >= k
       /\ normOut.value.steps[k].order = KthSmallest(ObjectIndices(SourceElements(Raw)), k)

\* an element carrying order 5 has given a step whose order is its index
C6_Witness ==
  /\ Normalized
  /\ Len(normOut.value.steps) = 1
  /\ SourceElements(Raw)[1].kind = "object"
  /\ "order" \in DOMAIN SourceElements(Raw)[1].val
  /\ SourceElements(Raw)[1].val.order = JNum(5)
  /\ normOut.value.steps[1].order = 0

\* C7 as stated: in every normalized Plan steps[k].order = k for every
\* zero-based position k of the steps sequence, also for raw.steps mixing
\* object and non-object elements.
C7_OrderIsPosition ==
  Normalized =>
    \A k \in 1..Len(normOut.value.steps) : normOut.value.steps[k].order = k - 1

\* C7 amended: the orders are strictly increasing along the steps sequence and
\* steps[k].order >= k; steps[k].order = k for every k when every element of
\* raw.steps is object-shaped.
C7_OrderIncreasing ==
  Normalized =>
    LET steps == normOut.value.steps
        src == SourceElements(Raw)
    IN /\ \A k \in 1..Len(steps) : steps[k].order >= k - 1
       /\ \A k \in 1..(Len(steps) - 1) : steps[k].order < steps[k + 1].order
       /\ (\A i \in 1..Len(src) : ObjectShaped(src[i])) =>
            (\A k \in 1..Len(steps) : steps[k].order = k - 1)

\* a skipped element has left a gap: the first step has order 1
C7_Witness ==
  /\ Normalized
  /\ Len(normOut.value.steps) >= 1
  /\ normOut.value.steps[1].order = 1

\* the description the step made from element el at zero-based index i is to have
ExpectedDescription(el, i) ==
  IF el.kind = "object" /\ "description" \in DOMAIN el.val
  THEN CASE el.val.description.kind = "string" -> el.val.description.val
         [] el.val.description = JNum(42) -> "42"
         [] OTHER -> String(el.val.description)
  ELSE CASE i = 0 -> "Step 1"
         [] i = 1 -> "Step 2"
         [] i = 2 -> "Step 3"
         [] OTHER -> "Step " \o ToString(i + 1)

\* the files the step made from element el is to have
ExpectedFiles(el) ==
  IF el.kind = "object" /\ "files" \in DOMAIN el.val /\ el.val.files.kind = "array"
  THEN el.val.files.val
  ELSE <<>>

\* C8: a normalized step's description is the source element's description
\* stringified when it has one and "Step n", n its source index plus one,
\* otherwise; its files is the source files when that is an array and empty
\* otherwise.
C8_DescriptionAndFiles ==
  Normalized =>
    \A k \in 1..Len(normOut.value.steps) :
       LET step == normOut.value.steps[k]
           el == SourceElements(Raw)[step.order + 1]
       IN /\ step.description = ExpectedDescription(el, step.order)
          /\ step.files = ExpectedFiles(el)

\* a numeric description was stringified and a files string dropped, before a
\* step that took the default description of its index and the files array
C8_Witness ==
  /\ Normalized
  /\ Len(normOut.value.steps) = 2
  /\ normOut.value.steps[1].description = "42"
  /\ normOut.value.steps[1].files = <<>>
  /\ normOut.value.steps[2].description = "Step 2"
  /\ normOut.value.steps[2].files = <<JStr("a.ts"), JStr("b.ts")>>

\* the identifiers of a plan: its own and those of its steps, in order
PlanIds(plan) == <<plan.id>> \o [k \in 1..Len(plan.steps) |-> plan.steps[k].id]

\* C9: identifiers are unique: within a Plan returned by generatePlan the plan
\* id and all step ids are pairwise distinct.
C9_IdsUnique ==
  (Done /\ result.kind = "return") =>
    \A j, k \in 1..Len(PlanIds(result.value)) :
       j # k => PlanIds(result.value)[j] # PlanIds(result.value)[k]

\* C10: every failure of the completion call is raised as an error of exactly
\* one kind of the closed set, carrying a message, the type and the original
\* error; HTTP status 401 gives authentication, 429 rate_limit, 400
\* bad_request and any other HTTP status unknown.
C10_ErrorClassification ==
  (pc \in {"responded", "done"} /\ aiOut.kind = "throw") =>
     /\ {"message", "type", "original"} \subseteq DOMAIN aiOut.error
     /\ aiOut.error.type \in ErrorKinds
     /\ aiOut.error.message # ""
     /\ LET original == aiOut.error.original
        IN (ClassOf(original) = "APIError" /\ original.status.kind = "number") =>
              aiOut.error.type = (CASE original.status.val = 401 -> "authentication"
                                    [] original.status.val = 429 -> "rate_limit"
                                    [] original.status.val = 400 -> "bad_request"
                                    [] OTHER -> "unknown")

\* a provider response with status 500 has been raised as kind unknown
C10_Witness ==
  /\ pc = "responded"
  /\ aiOut.kind = "throw"
  /\ aiOut.error.type = "unknown"
  /\ ClassOf(aiOut.error.original) = "APIError"
  /\ aiOut.error.original.status = JNum(500)

\* AIService.generatePlan has completed
Responded == pc \in {"responded", "done"}

\* C11: a transport or connectivity failure of the completion call, one that
\* is no HTTP response of the provider, is always raised as kind network.
C11_TransportFailureIsNetwork ==
  (Responded /\ providerOutcome.kind = "throw" /\ providerOutcome.error \in TransportFailures) =>
     (aiOut.kind = "throw" /\ aiOut.error.type = "network")

\* C12: when the response has no text content (no choices, null content or
\* the empty string) AIService.generatePlan returns no value and raises an
\* error of kind unknown whose message includes the no-content message.
C12_NoContentMessage ==
  (Responded /\ providerOutcome.kind = "response" /\ ~Truthy(providerOutcome.content)) =>
     /\ aiOut.kind = "throw"
     /\ aiOut.error.type = "unknown"
     /\ Includes(aiOut.error.message, "No response content received")

\* C13: a non-empty reply that is no valid JSON is no failure:
\* AIService.generatePlan returns {raw: <the text>}, and generatePlan then
\* returns a draft Plan without steps; a reply that is valid JSON is returned
\* as the value it denotes.
C13_RawWrapper ==
  (Responded /\ providerOutcome.kind = "response" /\ Truthy(providerOutcome.content)) =>
     /\ aiOut.kind = "return"
     /\ (pc = "responded") =>
          (\A r \in JsonReplies : (providerOutcome.content.val = r[1]) => (aiOut.value = r[2]))
     /\ (providerOutcome.content.val \in NonJsonTexts) =>
          /\ aiOut.value.kind = "object"
          /\ DOMAIN aiOut.value.val = {"raw"}
          /\ aiOut.value.val.raw = providerOutcome.content
          /\ Done => /\ result.kind = "return"
                     /\ result.value.status = "draft"
                     /\ result.value.steps = <<>>

\* a reply that is no JSON has ended in a draft plan
C13_Witness ==
  /\ Done
  /\ providerOutcome.kind = "response"
  /\ providerOutcome.content = JStr("{steps: [}")
  /\ aiOut = Return(JObj([raw |-> JStr("{steps: [}")]))
  /\ result.value.status = "draft"

C15_RetryOn429 ==
  (Responded /\ aiOut.kind = "throw" /\ aiOut.error.type = "rate_limit") => requests >= 2

\* the request a call issued under configuration cfg carries
RequestUnder(cfg) ==
  [apiKey |-> cfg.apiKey,
   baseURL |-> IF cfg.endpoint # "" THEN JStr(cfg.endpoint) ELSE Undefined,
   model |-> cfg.model,
   max_tokens |-> cfg.maxTokens]

\* C16: updateConfig takes effect atomically.  The request a call issues
\* carries the credential, endpoint, model and maxTokens of the configuration
\* stored when the call starts, that is of the latest updateConfig, and a
\* request that was already issued is left as it is by every later step,
\* updateConfig included.
C16_UpdateConfigAtomic ==
  [][/\ (pc = "gathering" /\ pc' = "requesting") => request' = RequestUnder(config)
     /\ (requests > 0) => request' = request]_vars

\* a call in flight whose request differs from the configuration stored now
C16_Witness ==
  /\ pc = "requesting"
  /\ requests > 0
  /\ request.apiKey # config.apiKey
  /\ request.model # config.model
  /\ request.max_tokens # config.maxTokens

(***************************************************************************)
(* gatherContext.                                                          *)
(***************************************************************************)
Gathered == ctxOut.kind # "none"
Ctx == ctxOut.value

\* the caller passed options with this flag set to true
FlagSet(name) ==
  /\ callOptions.kind = "object"
  /\ name \in DOMAIN callOptions.val
  /\ callOptions.val[name] = JBool(TRUE)

\* the manifest could not be read, or its text is no JSON
ManifestUnusable(ev) ==
  \/ ev.readFile.kind = "throw"
  \/ /\ ev.readFile.kind = "return"
     /\ \A r \in ManifestReplies : r[1] # ev.readFile.value

\* the value the manifest text stands for
ManifestOf(ev) == (CHOOSE r \in ManifestReplies : r[1] = ev.readFile.value)[2]

\* the manifest is JSON text of the value null
ManifestIsNull(ev) ==
  ev.readFile.kind = "return" /\ ~ManifestUnusable(ev) /\ ManifestOf(ev).kind = "null"

\* the manifest is JSON text of a number, a string, a boolean or an array
ManifestIsNoObject(ev) ==
  /\ ev.readFile.kind = "return"
  /\ ~ManifestUnusable(ev)
  /\ ManifestOf(ev).kind \in {"number", "string", "boolean", "array"}

\* C17: gatherContext never raises to its caller.  Whatever the flags and
\* whichever sub-step fails, it returns a Context with workspaceRoot; the
\* field of a failing sub-step is absent (no editor: activeFile; no
\* workspace, manifest unreadable, no JSON, or null: dependencies and
\* techStack) or empty (no workspace or directory enumeration error:
\* workspaceStructure; a manifest that is no object: two empty maps).
C17_GatherContextNeverRaises ==
  Gathered =>
    /\ ctxOut.kind = "return"
    /\ "workspaceRoot" \in DOMAIN Ctx
    /\ (environment.editor.kind = "undefined") => "activeFile" \notin DOMAIN Ctx
    /\ (~Truthy(environment.root) \/ environment.readDirectory.kind = "throw") =>
         ("workspaceStructure" \in DOMAIN Ctx => Ctx["workspaceStructure"] = <<>>)
    /\ (~Truthy(environment.root) \/ ManifestUnusable(environment)
          \/ ManifestIsNull(environment)) =>
         ("dependencies" \notin DOMAIN Ctx /\ "techStack" \notin DOMAIN Ctx)
    /\ (ManifestIsNoObject(environment) /\ "dependencies" \in DOMAIN Ctx) =>
         /\ Len(Ctx["dependencies"].dependencies.keys) = 0
         /\ Len(Ctx["dependencies"].devDependencies.keys) = 0

\* everything was requested, the directory listing failed and the manifest
\* holds null: the Context has an empty structure and no dependencies
C17_Witness ==
  /\ Gathered
  /\ ctxOut.kind = "return"
  /\ FlagSet("includeWorkspaceStructure")
  /\ FlagSet("includeDependencies")
  /\ Truthy(environment.root)
  /\ environment.readDirectory.kind = "throw"
  /\ ManifestIsNull(environment)
  /\ Ctx["workspaceStructure"] = <<>>
  /\ "dependencies" \notin DOMAIN Ctx

\* the same surroundings with a manifest that reads and parses
WithValidManifest(ev) ==
  [ev EXCEPT !.readFile =
     Return(StringifyOrdered(JOrd(<<"dependencies">>,
                                  "dependencies" :> OnePackage("react", "^1.0.0"))))]

\* the fields of a Context other than dependencies and techStack
OtherFields(c) == [k \in DOMAIN c \ {"dependencies", "techStack"} |-> c[k]]

\* C18: when the manifest cannot be read or is no JSON, the Context has
\* neither dependencies nor techStack, and workspaceRoot, activeFile and
\* workspaceStructure are what the same call returns with a valid manifest.
C18_ManifestResilience ==
  (Gathered /\ ctxOut.kind = "return" /\ ManifestUnusable(environment)) =>
    /\ "dependencies" \notin DOMAIN Ctx
    /\ "techStack" \notin DOMAIN Ctx
    /\ Ctx["workspaceRoot"] = environment.root
    /\ OtherFields(Ctx)
         = OtherFields(gatherContext(callOptions, WithValidManifest(environment)).value)

\* everything requested in a workspace with an open editor and two folders,
\* and a manifest that is no JSON
C18_Witness ==
  /\ Gathered
  /\ ctxOut.kind = "return"
  /\ FlagSet("includeActiveFile")
  /\ FlagSet("includeWorkspaceStructure")
  /\ FlagSet("includeDependencies")
  /\ Truthy(environment.root)
  /\ environment.readFile.kind = "return"
  /\ ManifestUnusable(environment)
  /\ environment.editor.kind # "undefined"
  /\ environment.readDirectory.kind = "return"
  /\ Ctx["workspaceStructure"] = <<"src", "test">>
  /\ Ctx["activeFile"].language = "typescript"
  /\ "techStack" \in
       DOMAIN gatherContext(callOptions, WithValidManifest(environment)).value

\* C19: each optional field is gated by its flag.  activeFile is present
\* only if includeActiveFile is set and there is an active editor,
\* workspaceStructure only if includeWorkspaceStructure is set, dependencies
\* and techStack only if includeDependencies is set; without options the
\* Context has workspaceRoot alone.
C19_FieldsGatedByFlags ==
  (Gathered /\ ctxOut.kind = "return") =>
    /\ ("activeFile" \in DOMAIN Ctx) =>
         (FlagSet("includeActiveFile") /\ environment.editor.kind # "undefined")
    /\ ("workspaceStructure" \in DOMAIN Ctx) => FlagSet("includeWorkspaceStructure")
    /\ ("dependencies" \in DOMAIN Ctx \/ "techStack" \in DOMAIN Ctx) =>
         FlagSet("includeDependencies")
    /\ (callOptions.kind = "undefined") => (DOMAIN Ctx = {"workspaceRoot"})

\* no options, in a workspace with an open editor, folders and a manifest
C19_Witness ==
  /\ Gathered
  /\ ctxOut.kind = "return"
  /\ callOptions.kind = "undefined"
  /\ Truthy(environment.root)
  /\ environment.editor.kind # "undefined"
  /\ environment.readDirectory.kind = "return"
  /\ environment.readFile.kind = "return"
  /\ ~ManifestUnusable(environment)
  /\ DOMAIN Ctx = {"workspaceRoot"}

\* Object.keys of a dependency map; a value that is no object has none of
\* the package names
KeysOf(v) == IF v.kind = "object" THEN DOMAIN v.val ELSE {}

\* the names among the merged dependencies and devDependencies
MergedKeys(pkgJson) ==
  KeysOf(Prop(pkgJson, "dependencies")) \cup KeysOf(Prop(pkgJson, "devDependencies"))

\* the label of the earliest rule one of whose names is among the keys
FirstMatch(keys) ==
  IF \E i \in DOMAIN Rules : Rules[i].names \cap keys # {}
  THEN Rules[CHOOSE i \in DOMAIN Rules :
               /\ Rules[i].names \cap keys # {}
               /\ \A j \in 1..(i - 1) : Rules[j].names \cap keys = {}].label
  ELSE "JavaScript/TypeScript"

\* C20: the tech stack is the label of the earliest rule, in the order
\* react, vue, angular or @angular/core, svelte, next, node, express, nest,
\* typescript, storybook, whose name is among the merged dependency and
\* devDependency names, and "JavaScript/TypeScript" when there is none.
C20_FirstMatchWins ==
  (Gathered /\ ctxOut.kind = "return" /\ "techStack" \in DOMAIN Ctx) =>
    Ctx["techStack"] = FirstMatch(MergedKeys(ManifestOf(environment)))

(***************************************************************************)
(* buildPrompt.                                                            *)
(***************************************************************************)
\* the prompt begins with this text
StartsWith(s, prefix) == Len(s) >= Len(prefix) /\ SubSeq(s, 1, Len(prefix)) = prefix

\* the first position of a text the prompt includes
PositionOf(s, sub) ==
  CHOOSE k \in 1..(Len(s) - Len(sub) + 1) :
    /\ SubSeq(s, k, k + Len(sub) - 1) = sub
    /\ \A j \in 1..(k - 1) : SubSeq(s, j, j + Len(sub) - 1) # sub

\* the texts that open the three optional sections, in their order
SectionMarks ==
  << [field |-> "activeFile", mark |-> "Current active file: "],
     [field |-> "techStack", mark |-> "Tech Stack: "],
     [field |-> "dependencies", mark |-> "Dependencies: "] >>

\* C21: the prompt starts with the Task header; the active-file block, the
\* Tech Stack line and the Dependencies line follow in this order, each in
\* the prompt if and only if its field is in the Context (the file block
\* with both of its delimiters); a Context without these fields gives the
\* header and nothing else.
C21_PromptSections ==
  (Gathered /\ ctxOut.kind = "return") =>
    /\ StartsWith(prompt, "Task: " \o task \o "\n\n")
    /\ \A i \in DOMAIN SectionMarks :
         Includes(prompt, SectionMarks[i].mark) <=> (SectionMarks[i].field \in DOMAIN Ctx)
    /\ \A m \in {"--- File Content ---\n", "\n--- End File ---\n\n"} :
         Includes(prompt, m) <=> ("activeFile" \in DOMAIN Ctx)
    /\ \A i, j \in DOMAIN SectionMarks :
         (/\ i < j
          /\ SectionMarks[i].field \in DOMAIN Ctx
          /\ SectionMarks[j].field \in DOMAIN Ctx) =>
           PositionOf(prompt, SectionMarks[i].mark) < PositionOf(prompt, SectionMarks[j].mark)
    /\ (DOMAIN Ctx \cap {"activeFile", "techStack", "dependencies"} = {}) =>
         prompt = "Task: " \o task \o "\n\n"

\* only the active file was requested, in a workspace with a manifest
C21_Witness ==
  /\ Gathered
  /\ ctxOut.kind = "return"
  /\ DOMAIN Ctx = {"workspaceRoot", "activeFile"}
  /\ Truthy(environment.root)
  /\ environment.readFile.kind = "return"
  /\ Includes(prompt, "--- File Content ---\nexport {}\n--- End File ---")
  /\ ~Includes(prompt, "Tech Stack:")
  /\ ~Includes(prompt, "Dependencies:")

\* the prompt ends with this text
EndsWith(s, suffix) ==
  Len(s) >= Len(suffix) /\ SubSeq(s, Len(s) - Len(suffix) + 1, Len(s)) = suffix

RECURSIVE Listed(_, _)
\* the names from the k-th up to the tenth, each after the first preceded by
\* a comma and a space
Listed(names, k) ==
  IF k > Len(names) \/ k > 10 THEN ""
  ELSE (IF k > 1 THEN ", " ELSE "") \o names[k] \o Listed(names, k + 1)

\* the version strings of a dependency map
VersionsOf(map) == {map.val[n].val : n \in DOMAIN map.val} \ {""}

\* C22: the Dependencies line lists the first 10 names of the dependencies
\* map in map order, joined by ", ", and ends with "..." if and only if the
\* map has more than 10 names; no name after the tenth and no version of
\* dependencies or devDependencies is in the prompt.
C22_DependenciesLine ==
  (Gathered /\ ctxOut.kind = "return" /\ "dependencies" \in DOMAIN Ctx) =>
    LET names == Ctx["dependencies"].dependencies.keys
    IN /\ EndsWith(prompt, "\n\nDependencies: " \o Listed(names, 1)
                             \o (IF Len(names) > 10 THEN "..." ELSE "") \o "\n\n")
       /\ (Len(names) <= 10) => ~Includes(prompt, "...")
       /\ \A k \in 11..Len(names) : ~Includes(prompt, names[k])
       /\ \A v \in VersionsOf(Ctx["dependencies"].dependencies)
                     \cup VersionsOf(Ctx["dependencies"].devDependencies) :
            ~Includes(prompt, v)

\* a manifest with eleven dependencies: ten are listed, then the dots
C22_Witness ==
  /\ Gathered
  /\ ctxOut.kind = "return"
  /\ "dependencies" \in DOMAIN Ctx
  /\ Len(Ctx["dependencies"].dependencies.keys) = 11
  /\ EndsWith(prompt, "Dependencies: zod, lodash, express, react, axios, vue, next, "
                        \o "chalk, svelte, typescript...\n\n")
  /\ ~Includes(prompt, "yargs")

\* the Context with another workspace root and other folders, or none
Relocated(ctx, root, folders) ==
  [k \in (DOMAIN ctx \ {"workspaceStructure"})
           \cup (IF folders.kind = "return" THEN {"workspaceStructure"} ELSE {}) |->
     IF k = "workspaceRoot" THEN root
     ELSE IF k = "workspaceStructure" THEN folders.value
     ELSE ctx[k]]

\* C23: the prompt is a function of the task, activeFile, techStack and
\* dependencies alone.  Building it again for the same Context gives the
\* same text, and so does building it for a Context that differs in
\* workspaceRoot or workspaceStructure only.
C23_PromptIgnoresWorkspace ==
  (Gathered /\ ctxOut.kind = "return") =>
    /\ buildPrompt(task, Ctx) = prompt
    /\ \A root \in {Undefined, JStr("/work/app"), JStr("/srv/other")} :
         \A folders \in {None, Return(<<>>), Return(<<"src", "test">>), Return(<<"lib">>)} :
           buildPrompt(task, Relocated(Ctx, root, folders)) = prompt

\* a Context with folders, an active file and a manifest: the folders are
\* not in the prompt
C23_Witness ==
  /\ Gathered
  /\ ctxOut.kind = "return"
  /\ {"activeFile", "techStack", "dependencies", "workspaceStructure"} \subseteq DOMAIN Ctx
  /\ Ctx["workspaceStructure"] = <<"src", "test">>
  /\ ~Includes(prompt, "src, test")
  /\ ~Includes(prompt, "test")

(***************************************************************************)
(* The API key.                                                            *)
(***************************************************************************)
\* the parts of s that neither start nor end with whitespace
Cores(s) ==
  {SubSeq(s, ij[1], ij[2]) :
     ij \in {ij \in (1..Len(s)) \X (1..Len(s)) :
               /\ ij[1] <= ij[2]
               /\ SubSeq(s, ij[1], ij[1]) \notin Whitespace
               /\ SubSeq(s, ij[2], ij[2]) \notin Whitespace}}

\* s without the whitespace around it: its longest such part, "" if none
Stripped(s) ==
  IF Cores(s) = {} THEN ""
  ELSE CHOOSE c \in Cores(s) : \A d \in Cores(s) : Len(d) <= Len(c)

\* an environment variable holds a key
IsSet(v) == v.kind = "string" /\ v.val # ""

RequestsOf(c) == {i \in DOMAIN sent : sent[i].call = c}

\* the steps a reply gives rise to
StepsOfReply(o) ==
  IF o.kind = "throw" THEN 0
  ELSE Len(SelectSeq(JSONparse(o.content.val).value.val["steps"].val, ObjectShaped))

\* call c has issued one request, with its own task in the prompt, and what
\* it returned is a Plan for its own task made from its own outcome
OwnRequestAndPlan(c) ==
  /\ (calls[c].pc \in {"idle", "gathering"}) => RequestsOf(c) = {}
  /\ (calls[c].pc \in {"requesting", "responded", "done"}) =>
       /\ Cardinality(RequestsOf(c)) = 1
       /\ \A i \in RequestsOf(c) : StartsWith(sent[i].prompt, "Task: " \o TaskOfCall[c] \o "\n\n")
  /\ (calls[c].pc = "done") =>
       /\ calls[c].result.kind = "return"
       /\ calls[c].result.value.task = TaskOfCall[c]
       /\ (calls[c].result.value.status = "failed") <=> (calls[c].outcome.kind = "throw")
       /\ Len(calls[c].result.value.steps) = StepsOfReply(calls[c].outcome)

\* C29: two calls issued together proceed independently.  In every
\* interleaving each call issues one completion request of its own, each
\* call that was started returns in the end, whichever completion resolves
\* first, and the Plan it returns carries its own task and is made from its
\* own completion.
C29_CallsIndependent ==
  /\ [](\A c \in CallIds : OwnRequestAndPlan(c))
  /\ \A c \in CallIds : (calls[c].pc = "gathering") ~> (calls[c].pc = "done")

\* call 2 issued its request first and call 1 returned first, one with a
\* plan and the other failed
C29_Witness ==
  /\ Len(sent) = 2
  /\ sent[1].call = 2
  /\ calls[1].pc = "done"
  /\ calls[2].pc = "responded"
  /\ calls[1].result.value.status = "active"
  /\ calls[2].outcome.kind = "throw"

\* the positions in posted of the messages of the given types that the
\* activation g of handleGeneratePlan posted
PostedBy(g, types) ==
  {i \in DOMAIN posted : posted[i].type \in types /\ posted[i].gen = g}

GenerationTypes == {"generation-start", "generation-complete", "generation-error"}
TerminalTypes == {"generation-complete", "generation-error"}

\* C24: with apiKey empty a generatePlan message never reaches the core: the
\* host answers it with one generation-error and nothing else, posts no
\* generation-start, does not call PlanService.generatePlan and no
\* completion request is issued.
C24_NoKeyNoGeneration ==
  /\ [][(/\ toHost # <<>>
         /\ Head(toHost).type = "generatePlan"
         /\ toHost' = Tail(toHost)
         /\ aiConfig(loaded, envAnthropic, envOpenAI).apiKey = "")
          => /\ Len(posted') = Len(posted) + 1
             /\ posted'[Len(posted')].type = "generation-error"
             /\ hostGen'[posted'[Len(posted')].gen] = "rejected"
             /\ UNCHANGED <<calls, sent, currentPlan, recentPlans, stored>>]_vars
  /\ [](\A g \in CallIds :
          (hostGen[g] = "rejected") =>
            /\ calls[g] = IdleCall
            /\ \A i \in DOMAIN sent : sent[i].call # g
            /\ PostedBy(g, {"generation-start", "generation-complete"}) = {}
            /\ Cardinality(PostedBy(g, {"generation-error"})) = 1)

\* the key was blanked in the settings while the webview still showed the
\* input, and the generatePlan message it sent was answered with the error
C24_Witness ==
  /\ Trim(loaded.apiKey) = ""
  /\ loaded.apiKey # ""
  /\ hostGen[1] = "rejected"
  /\ Len(posted) > 0
  /\ posted[Len(posted)].type = "generation-error"
  /\ toHost = <<>>

\* C26: when generation-complete is posted, the list stored in globalState
\* contains the plan the message carries.
C26_CompletePlanStored ==
  [][(/\ Len(posted') = Len(posted) + 1
      /\ posted'[Len(posted')].type = "generation-complete")
       => \E i \in DOMAIN stored' : stored'[i].id = posted'[Len(posted')].plan.id]_vars

\* the ids of the plans of a list
IdsOf(plans) == {plans[i].id : i \in DOMAIN plans}

\* C27: handling deletePlan removes the plan that was current, and only
\* that plan: once the host has saved the list, the stored list holds the
\* ids it held before except the id of the plan that was current, and once
\* the webview has handled plan-deleted the same is true of its list.
C27_DeleteRemovesCurrentOnly ==
  [][/\ (/\ deleting' = deleting + 1
         /\ currentPlan # JNull
         /\ stored' = savedList(recentPlans))
          => IdsOf(stored') = IdsOf(stored) \ {currentPlan.id}
     /\ (/\ seen' = seen + 1
         /\ posted[seen'].type = "plan-deleted"
         /\ wv.currentPlan # JNull)
          => IdsOf(wv'.recentPlans) = IdsOf(wv.recentPlans) \ {wv.currentPlan.id}]_vars

\* C28: every generatePlan message the webview sends carries a trimmed task
\* of at least 10 characters.
C28_TaskValidated ==
  \A i \in DOMAIN toHost :
    (toHost[i].type = "generatePlan") =>
      /\ toHost[i].task = Trim(toHost[i].task)
      /\ Len(toHost[i].task) >= 10

\* what the activation g of handleGeneratePlan has posted so far is what
\* its position allows: nothing before it is started, generation-start alone
\* while generatePlan and the save are awaited, then one terminal message
\* after the start, of the type the status of the returned plan decides
StartThenTerminal(g) ==
  /\ (hostGen[g] = "free") => PostedBy(g, GenerationTypes) = {}
  /\ (hostGen[g] \in {"generating", "saving"}) =>
       /\ Cardinality(PostedBy(g, {"generation-start"})) = 1
       /\ PostedBy(g, TerminalTypes) = {}
  /\ (hostGen[g] \in {"completed", "errored"}) =>
       /\ Cardinality(PostedBy(g, {"generation-start"})) = 1
       /\ Cardinality(PostedBy(g, TerminalTypes)) = 1
       /\ \A i \in PostedBy(g, {"generation-start"}) :
            \A j \in PostedBy(g, TerminalTypes) :
              /\ i < j
              /\ posted[j].type =
                   IF /\ calls[g].result.kind = "return"
                      /\ calls[g].result.value.status # "failed"
                   THEN "generation-complete"
                   ELSE "generation-error"
              /\ (posted[j].type = "generation-complete") =>
                   posted[j].plan = calls[g].result.value

\* C30: for every generatePlan message handled with a key configured the
\* host posts exactly one generation-start and afterwards exactly one
\* terminal message, generation-complete if the status of the returned plan
\* is not "failed" and generation-error if it is; the terminal message never
\* precedes the start, and every generation that was started gets its
\* terminal message in the end.
C30_StartThenOneTerminal ==
  /\ [](\A g \in CallIds :
          (hostGen[g] # "rejected") => StartThenTerminal(g))
  /\ \A g \in CallIds :
       (hostGen[g] = "generating") ~> (hostGen[g] \in {"completed", "errored"})

\* both generations ran side by side; the second one completed first and the
\* first one failed
C30_Witness ==
  /\ hostGen[1] = "errored"
  /\ hostGen[2] = "completed"
  /\ \A i \in PostedBy(1, TerminalTypes) : \A j \in PostedBy(2, TerminalTypes) : j < i
  /\ \A i \in PostedBy(2, {"generation-start"}) :
       \A j \in PostedBy(1, TerminalTypes) : i < j

\* the manifest is JSON text of an object with neither dependencies nor
\* devDependencies
ManifestHasNoMaps(ev) ==
  /\ ev.readFile.kind = "return"
  /\ ~ManifestUnusable(ev)
  /\ ManifestOf(ev).kind = "object"
  /\ ManifestOf(ev).keys = <<>>

\* C38: in every Context gatherContext returns, dependencies is present if
\* and only if techStack is.  A manifest that was read holding no dependency
\* maps gives two empty maps and the label "JavaScript/TypeScript".
C38_DependenciesIffTechStack ==
  (Gathered /\ ctxOut.kind = "return") =>
    /\ ("dependencies" \in DOMAIN Ctx) <=> ("techStack" \in DOMAIN Ctx)
    /\ (/\ FlagSet("includeDependencies")
        /\ Truthy(environment.root)
        /\ ManifestHasNoMaps(environment)) =>
         /\ "dependencies" \in DOMAIN Ctx
         /\ Ctx["dependencies"].dependencies = EmptyObject
         /\ Ctx["dependencies"].devDependencies = EmptyObject
         /\ Ctx["techStack"] = "JavaScript/TypeScript"

\* the manifest {} was gathered: two empty maps and the default label
C38_Witness ==
  /\ Gathered
  /\ ctxOut.kind = "return"
  /\ FlagSet("includeDependencies")
  /\ Truthy(environment.root)
  /\ ManifestHasNoMaps(environment)
  /\ Ctx["techStack"] = "JavaScript/TypeScript"
  /\ Ctx["dependencies"].dependencies.keys = <<>>

\* the call of the activation g has returned a failed plan or has thrown
GenerationFailed(g) ==
  /\ calls[g].pc = "done"
  /\ \/ calls[g].result.kind = "throw"
     \/ calls[g].result.value.status = "failed"

\* C31: a failed generation changes no host plan state.  The steps of a
\* handleGeneratePlan activation that finds no key, or whose generatePlan
\* call returns a failed plan, leave the current plan, the recent-plans list
\* and globalState as they are: the rejection, the start, and the step that
\* posts generation-error.
C31_FailedGenerationFrame ==
  [][\A g \in CallIds :
       (/\ hostGen'[g] # hostGen[g]
        /\ \/ hostGen'[g] \in {"rejected", "generating"}
           \/ hostGen[g] = "generating" /\ GenerationFailed(g))
         => UNCHANGED <<currentPlan, recentPlans, stored>>]_vars

\* a plan from the stored history is current and a generation started
\* meanwhile has failed: the plan is still current and still stored
C31_Witness ==
  /\ hostGen[1] = "errored"
  /\ GenerationFailed(1)
  /\ currentPlan # JNull
  /\ recentPlans # <<>>
  /\ stored # <<>>

\* C32: selectPlan loads a plan from history.  For a planId in the host's
\* recent-plans list the current plan becomes the plan of that id and
\* plan-selected is posted with it; for any other planId nothing is posted
\* and the current plan stays.
C32_SelectPlan ==
  [][(/\ toHost # <<>>
      /\ Head(toHost).type = "selectPlan"
      /\ toHost' = Tail(toHost))
       => IF Head(toHost).planId \in IdsOf(recentPlans)
          THEN /\ currentPlan' # JNull
               /\ currentPlan'.id = Head(toHost).planId
               /\ \E i \in DOMAIN recentPlans : recentPlans[i] = currentPlan'
               /\ posted' = Append(posted, [type |-> "plan-selected", gen |-> NoGen,
                                            plan |-> currentPlan'])
               /\ UNCHANGED <<recentPlans, stored>>
          ELSE UNCHANGED <<currentPlan, posted, recentPlans, stored>>]_vars

\* the plan of the stored history was selected while another plan was
\* current, and the webview shows it
C32_Witness ==
  /\ Len(posted) > 0
  /\ posted[Len(posted)].type = "plan-selected"
  /\ currentPlan = posted[Len(posted)].plan
  /\ seen = Len(posted)
  /\ wv.currentPlan = currentPlan
  /\ Len(wv.recentPlans) = 2

\* C33: every plan in the webview's recent-plans list is in the host's
\* recent-plans list, so that a selectPlan message for it is answered.
C33_ListedPlansSelectable ==
  IdsOf(wv.recentPlans) \subseteq IdsOf(recentPlans)

\* nothing is in flight: no message is waiting on either side and no
\* handler is suspended at an await
Quiescent ==
  /\ toHost = <<>>
  /\ seen = Len(posted)
  /\ deleting = 0
  /\ \A g \in CallIds : hostGen[g] \notin {"generating", "saving"}

\* C34: at quiescence the webview and the host agree on the current plan:
\* both have none, or both have the plan of the same id.
C34_CurrentPlanAgreement ==
  Quiescent =>
    \/ currentPlan = JNull /\ wv.currentPlan = JNull
    \/ /\ currentPlan # JNull
       /\ wv.currentPlan # JNull
       /\ currentPlan.id = wv.currentPlan.id

\* the generatePlan messages the webview has sent, and the terminal
\* messages it has received
GenerateSent ==
  Cardinality({i \in DOMAIN toHost : toHost[i].type = "generatePlan"})
    + Cardinality({g \in CallIds : hostGen[g] # "free"})
TerminalsReceived ==
  Cardinality({i \in 1..seen : posted[i].type \in TerminalTypes})

\* C35: the webview has at most one generatePlan message outstanding: it
\* sends no second one before it received the terminal message of the first.
C35_OneGenerationOutstanding ==
  GenerateSent - TerminalsReceived <= 1

\* a completion request is issued in this step
RequestIssued == Len(sent') = Len(sent) + 1

C37_ConfigOwned ==
  /\ [](/\ client.apiKey = config.apiKey
        /\ client.baseURL = IF config.endpoint # "" THEN JStr(config.endpoint) ELSE Undefined)
  /\ [][/\ \A partial \in Partials :
             UpdateConfig(partial) =>
               \A k \in ConfigFields :
                 config'[k] = IF k \in DOMAIN partial THEN partial[k] ELSE config[k]
        /\ GetConfig => got'.val = config /\ config' = config
        /\ (\E k \in ConfigFields : \E c \in Configs : MutateCopy(k, c[k]))
             => config' = config /\ client' = client]_vars

\* the caller changed every field of the object it got, the service has
\* the configuration of its last update
C37_Witness ==
  /\ got # None
  /\ \A k \in ConfigFields : got.val[k] # config[k]
  /\ config.endpoint # ""
  /\ client.baseURL = JStr(config.endpoint)

\* C39: saving and reloading the plan history is a round trip.  For every
\* list the provider holds, loadRecentPlans of what saveRecentPlans writes
\* is that list: the same plans in the same order, with the same id, task,
\* steps, status and createdAt.  A failing read gives the empty list, a
\* failing write leaves globalState and the list as they were.
C39_HistoryRoundTrip ==
  /\ [](/\ loadRecentPlans(Return(afterSave(stored, recentPlans, TRUE))) = recentPlans
        /\ loadRecentPlans(Throw([class |-> "Error", message |-> "storage"])) = <<>>
        /\ afterSave(stored, recentPlans, FALSE) = stored)
  /\ [][/\ (stored' # stored) => (stored' = savedList(recentPlans) /\ recentPlans' = recentPlans)
        /\ (recentPlans' # recentPlans) =>
             /\ stored' = stored
             /\ \/ recentPlans' = <<>>
                \/ /\ Len(recentPlans') = Len(stored)
                   /\ \A i \in DOMAIN stored :
                        /\ recentPlans'[i].id = stored[i].id
                        /\ recentPlans'[i].task = stored[i].task
                        /\ recentPlans'[i].steps = stored[i].steps
                        /\ recentPlans'[i].status = stored[i].status
                        /\ JNum(recentPlans'[i].createdAt) = stored[i].createdAt]_vars

\* a list of a generated and a failed plan was saved and is what a reload
\* gives
C39_Witness ==
  /\ recentPlans = <<LongerPlan, GeneratedPlan, FailedPlan>>
  /\ stored = savedList(recentPlans)
  /\ loadRecentPlans(Return(stored)) = recentPlans
  /\ Len(recentPlans[1].steps) = 2
  /\ recentPlans[3].status = "failed"

==============================================================================
